---- MODULE Spec2Model ----
(***************************************************************************)
(* Model of the security-camera daemon (kklasmeier/security-camera).       *)
(*                                                                         *)
(* The module holds the state of the cooperating threads and one action    *)
(* per step a thread takes between two points where another thread can     *)
(* run.  The specifications share the definitions:                        *)
(*                                                                         *)
(*   Spec          the detector -> signal -> processor pipeline of the     *)
(*                 daemon (sec_cam_main.py), with the wall clock           *)
(*   SpecSave      CircularBuffer.save_event_with_continuation running     *)
(*                 against a live encoder (BoundedCircularOutput)          *)
(*   SpecRecovery  the camera watchdog against the MJPEG monitor           *)
(*   SpecWatchdog  the camera watchdog against the detector and the        *)
(*                 processor                                               *)
(*   SpecSaveFair  SpecSave with a clock that passes and a save that keeps *)
(*                 polling                                                 *)
(*   SpecTimed     the pipeline of Spec under nominal latencies            *)
(*   SpecConfig    config.validate_config over a range of cooldowns        *)
(*   SpecStall     the capture thread and the watchdog alone, with         *)
(*                 fairness                                                *)
(***************************************************************************)
EXTENDS Integers, Sequences, FiniteSets, TLC

(***************************************************************************)
(* Bounds of the model.                                                    *)
(***************************************************************************)
MaxProduced == 5      \* chunks the encoder emits in one run
MaxChunks == 3        \* ring capacity used for CIRCULAR_BUFFER_MAX_CHUNKS
MaxEvents == 2        \* motion events the detector handles in one run
MaxBuffers == 3       \* CircularBuffer objects constructed in one run
TickSeconds == 5      \* seconds the wall clock advances per Tick
BootTime == 100       \* time.time() when the daemon starts (any value > 60)
PipelineHorizon == 70 \* seconds of wall clock explored by Spec
SaveHorizon == 15     \* seconds of wall clock explored by SpecSave
RecoveryHorizon == 10 \* seconds of wall clock explored by SpecRecovery
WatchdogHorizon == 15 \* seconds of wall clock explored by SpecWatchdog
SaveTimeoutArg == 10  \* timeout_seconds passed to the save in SpecSave
MaxFaults == 1        \* camera, file and store failures injected in one run
MaxToggles == 2       \* writes of the streaming flag by the web UI in one run
MaxConnects == 2      \* clients that open the stream in one run
MaxCooldown == 120    \* largest MOTION_COOLDOWN_SECONDS tried in SpecConfig
StormHorizon == 70    \* seconds of wall clock explored by SpecStorm
StallHorizon == 15    \* seconds of wall clock explored by SpecStall
StreamHorizon == 15   \* seconds of wall clock explored by SpecStream
MaxSignals == 2       \* SIGTERM / SIGINT deliveries in one run
PollHorizonMs == 1200 \* milliseconds of wall clock explored by SpecPoll
FramePixels == 2      \* pixels of a detection frame

(***************************************************************************)
(* Program constants (src/config.py and literals of the code).             *)
(***************************************************************************)
CIRCULAR_BUFFER_MAX_CHUNKS == MaxChunks   \* config.py has 1000
TargetFillPercent == 95
MOTION_COOLDOWN_SECONDS == 65
PICTURE_CAPTURE_INTERVAL == "normal"
LIVESTREAM_CAPTURE_INTERVAL == "livestream"
StallSeconds == 10
RestartSuppressSeconds == 60

WatchdogSleepSeconds == 5
StopTimerSeconds == 5
STREAMING_TIMEOUT == 900   \* 15 * 60
MOTION_THRESHOLD == 60
MOTION_SENSITIVITY == 50

\* time.sleep(4.0) at the start of _process_event
PictureBDelay == 4

\* the threshold of validate_config
MinCooldown == 17
\* timeout_seconds=60 in the signature of save_event_with_continuation
DefaultTimeoutSeconds == 60

\* None where a path is expected
None == <<>>
\* no frame handed to outputframe yet
NoChunk == [id |-> 0, key |-> FALSE]

\* self.circular_buffer = None
NoBuffer == 0

\* MotionEvent._data before the first set(): no event_id, no timestamp
NoData == [event_id |-> 0, timestamp |-> 0]

VARIABLES
  now,                \* time.time()
  faults,             \* history: failures injected so far
  \* ---- BoundedCircularOutput (the ring) and the encoder thread ----
  circular,           \* _circular: sequence of chunks [id, key]
  chunk_count,        \* _chunk_count: eviction counter
  enc_pc,             \* position of the encoder thread inside outputframe
  enc_chunk,          \* the frame outputframe was called with
  produced,           \* history: chunks handed to outputframe so far
  dropped,            \* history: chunks removed by popleft in outputframe
  \* ---- save_event_with_continuation ----
  s_pc, s_path, s_target, s_timeout, s_start, s_pre, s_post, s_log,
  \* ---- file system ----
  h264,               \* path -> [data, synced] for every existing .h264 file
  pending,            \* set of existing .pending markers (path of the .h264)
  pictures,           \* set of existing .jpg files
  \* ---- event store (database.py) ----
  events,             \* rows of the events table; the id is the index
  streaming,          \* system_control.streaming
  \* ---- MotionEvent ----
  me_event,           \* _event: the threading.Event flag
  me_data,            \* _data: the payload slot
  me_sets,            \* history: [id, at] of every set() call
  me_got,             \* history: event ids returned by wait_and_get()
  me_log,             \* the log lines written by set(): [level, event_id]
  \* ---- MotionDetector (thread 2) ----
  d_pc, d_paused, last_detection_time, d_buffer, d_timestamp, d_event_id,
  \* ---- EventProcessor (thread 3) ----
  ep_pc, ep_paused, ep_buffer, ep_data,
  ep_wake,            \* when the time.sleep(4.0) of _process_event returns (0: not sleeping)
  ep_opfail,          \* history: an operation failed while handling ep_data
  \* ---- CircularBuffer objects and SecurityCameraSystem ----
  buffers,            \* every CircularBuffer constructed so far
  circular_buffer,    \* SecurityCameraSystem.circular_buffer (index, 0 = None)
  \* ---- camera watchdog (thread CameraWatchdog) ----
  w_pc,               \* position of the watchdog: "sleep" or a recovery step
  w_next,             \* clock value at which time.sleep(5) returns
  last_restart_time,  \* local of watchdog_loop
  w_starts,           \* history: the clock at every call of _perform_full_recovery
  timeout_count,      \* local of watchdog_loop
  w_outcome,          \* history: how the latest recovery ended
  \* ---- MJPEGServer (thread MJPEGMonitor, HTTP server, handler) ----
  m_pc,               \* position of the monitor thread
  m_self,             \* buffer object of the running start/stop_streaming call
  server_active,      \* local of _monitor_streaming_flag
  streaming_start_time, \* local of _monitor_streaming_flag, 0 for None
  mjpeg_buffer,       \* MJPEGServer.buffer
  server_open,        \* MJPEGServer.server is not None
  server_circular_buffer,  \* MJPEGServer.server.circular_buffer
  h_active,           \* a handler is inside serve_mjpeg_stream
  h_buffer,           \* self.server.circular_buffer as that handler reads it
  active_clients,     \* MJPEGServer.active_clients
  timers,             \* due times of the pending threading.Timer objects
  toggles,            \* history: writes of the streaming flag by the web UI
  connects,           \* history: clients that connected
  \* ---- config.py ----
  main_pc,            \* position of the main thread in main() / run()
  stop_pc,            \* position inside SecurityCameraSystem.stop()
  running,            \* SecurityCameraSystem.running
  handlers,           \* signal.signal has registered signal_handler
  signals,            \* SIGTERM / SIGINT delivered so far
  exit_code,          \* argument of sys.exit, NoExit before
  lc_log,             \* history: construct / start / stop calls in order
  run_flag,           \* the running attribute of each component
  thread,             \* position of each worker thread
  lc_event,           \* MotionEvent._event as the worker loops see it
  ms,                 \* wall clock in milliseconds
  m_wake,             \* when the monitor's time.sleep(1.0) returns
  flag_at,            \* history: when the streaming flag last changed
  c_pc,               \* position of _capture_pictures
  c_initial,          \* initial_interval of the running sleep
  c_sleep_start,      \* sleep_start of the running sleep
  c_chunk_end,        \* when the running time.sleep(sleep_time) returns
  f_frame1,           \* frame1 of _compare_frames
  f_frame2,           \* frame2 of _compare_frames
  f_threshold,        \* MotionDetector.threshold
  f_sensitivity,      \* MotionDetector.sensitivity
  f_result,           \* what _compare_frames returned
  cfg_cooldown,       \* MOTION_COOLDOWN_SECONDS as validate_config reads it
  cfg_result          \* how validate_config ended: "none", "returned", "ValueError"

ringVars == <<circular, chunk_count, enc_pc, enc_chunk, produced, dropped>>
saveVars == <<s_pc, s_path, s_target, s_timeout, s_start, s_pre, s_post, s_log>>
fsVars == <<h264, pending, pictures>>
storeVars == <<events, streaming>>
signalVars == <<me_event, me_data, me_sets, me_got, me_log>>
detVars == <<d_pc, d_paused, last_detection_time, d_buffer, d_timestamp, d_event_id>>
procVars == <<ep_pc, ep_paused, ep_buffer, ep_data, ep_opfail, ep_wake>>
bufVars == <<buffers, circular_buffer>>
watchVars == <<w_pc, w_next, last_restart_time, timeout_count, w_outcome, w_starts>>
mjpegVars == <<m_pc, m_self, server_active, streaming_start_time, mjpeg_buffer, server_open,
               server_circular_buffer, h_active, h_buffer, active_clients,
               timers, toggles, connects>>
ctlVars == <<watchVars, mjpegVars>>
daemonVars == <<storeVars, signalVars, detVars, procVars, bufVars>>
cfgVars == <<cfg_cooldown, cfg_result>>
cmpVars == <<f_frame1, f_frame2, f_threshold, f_sensitivity, f_result>>
pollVars == <<ms, m_wake, flag_at, c_pc, c_initial, c_sleep_start, c_chunk_end>>
lifeVars == <<main_pc, stop_pc, running, handlers, signals, exit_code, lc_log,
              run_flag, thread, lc_event>>
vars == <<cfgVars, cmpVars, lifeVars, pollVars, now, ctlVars, faults, ringVars, saveVars, fsVars, daemonVars>>

(***************************************************************************)
(* config.validate_config: the only check that raises is the one on the    *)
(* cooldown; the checks of resolution, framerate and buffer capacity print *)
(* a warning.                                                              *)
(***************************************************************************)
ValidateConfig(cooldown) ==
  IF cooldown < MinCooldown THEN "ValueError" ELSE "returned"

\* SecurityCameraSystem.initialize, step 1
RunValidateConfig ==
  /\ cfg_result = "none"
  /\ cfg_result' = ValidateConfig(cfg_cooldown)
  /\ UNCHANGED <<cfg_cooldown, cmpVars, lifeVars, pollVars, now, ctlVars, faults, ringVars, saveVars, fsVars, daemonVars>>

(***************************************************************************)
(* Wall clock.                                                             *)
(***************************************************************************)
Tick(horizon) ==
  /\ now + TickSeconds <= BootTime + horizon
  /\ now' = now + TickSeconds
  /\ UNCHANGED <<cfgVars, cmpVars, lifeVars, pollVars, ctlVars, faults, ringVars, saveVars, fsVars, daemonVars>>

(***************************************************************************)
(* Failures of the camera, the file system and sqlite3 are chosen by the   *)
(* environment, at most MaxFaults of them in one run.                      *)
(***************************************************************************)
FaultChoices == IF faults < MaxFaults THEN BOOLEAN ELSE {FALSE}

Charge(fail) == faults' = IF fail THEN faults + 1 ELSE faults

(***************************************************************************)
(* BoundedCircularOutput.outputframe, called on the encoder thread.        *)
(* The override evicts while the ring is at capacity and then hands the    *)
(* frame to CircularOutput.outputframe, which appends (frame, keyframe).   *)
(***************************************************************************)
AtCapacity_OffByOne(ring) == Len(ring) > CIRCULAR_BUFFER_MAX_CHUNKS

AtCapacity(ring) == Len(ring) >= CIRCULAR_BUFFER_MAX_CHUNKS

EncOutputFrame ==
  /\ enc_pc = "idle"
  /\ produced < MaxProduced
  /\ \E keyframe \in BOOLEAN :
       enc_chunk' = [id |-> produced + 1, key |-> keyframe]
  /\ produced' = produced + 1
  /\ enc_pc' = "check"
  /\ UNCHANGED <<circular, chunk_count, dropped>>
  /\ UNCHANGED <<cfgVars, cmpVars, lifeVars, pollVars, now, ctlVars, faults, saveVars, fsVars, daemonVars>>

EncCheck ==
  /\ enc_pc = "check"
  /\ enc_pc' = IF AtCapacity(circular) THEN "popleft" ELSE "append"
  /\ UNCHANGED <<circular, chunk_count, enc_chunk, produced, dropped>>
  /\ UNCHANGED <<cfgVars, cmpVars, lifeVars, pollVars, now, ctlVars, faults, saveVars, fsVars, daemonVars>>

\* popleft(); an IndexError (the ring was cleared since the check) breaks
\* out of the loop without counting.
EncPopleft ==
  /\ enc_pc = "popleft"
  /\ IF circular = <<>>
       THEN /\ enc_pc' = "append"
            /\ UNCHANGED <<circular, dropped>>
       ELSE /\ circular' = Tail(circular)
            /\ dropped' = dropped + 1
            /\ enc_pc' = "count"
  /\ UNCHANGED <<chunk_count, enc_chunk, produced>>
  /\ UNCHANGED <<cfgVars, cmpVars, lifeVars, pollVars, now, ctlVars, faults, saveVars, fsVars, daemonVars>>

EncCount ==
  /\ enc_pc = "count"
  /\ chunk_count' = chunk_count + 1
  /\ enc_pc' = "check"
  /\ UNCHANGED <<circular, enc_chunk, produced, dropped>>
  /\ UNCHANGED <<cfgVars, cmpVars, lifeVars, pollVars, now, ctlVars, faults, saveVars, fsVars, daemonVars>>

EncAppend ==
  /\ enc_pc = "append"
  /\ circular' = Append(circular, enc_chunk)
  /\ enc_pc' = "idle"
  /\ UNCHANGED <<chunk_count, enc_chunk, produced, dropped>>
  /\ UNCHANGED <<cfgVars, cmpVars, lifeVars, pollVars, now, ctlVars, faults, saveVars, fsVars, daemonVars>>

(***************************************************************************)
(* CircularBuffer.save_event_with_continuation.                            *)
(***************************************************************************)
\* int(max_chunks * target_fill_percent)
TargetChunks(percent) == (CIRCULAR_BUFFER_MAX_CHUNKS * percent) \div 100

\* index of the first keyframe of a snapshot, 0 when there is none
FirstKeyframe(snapshot) ==
  IF \E i \in 1..Len(snapshot) : snapshot[i].key
    THEN CHOOSE i \in 1..Len(snapshot) :
           /\ snapshot[i].key
           /\ \A j \in 1..(i - 1) : ~snapshot[j].key
    ELSE 0

DumpChunks_Whole(snapshot) == snapshot

\* the chunks one dump loop writes: everything from the first keyframe on
DumpChunks(snapshot) ==
  IF FirstKeyframe(snapshot) = 0
    THEN <<>>
    ELSE SubSeq(snapshot, FirstKeyframe(snapshot), Len(snapshot))

TestVideoPath == <<"tmp", "test_event", "h264">>

\* the call, up to and including open(filepath_h264, "wb")
SaveOpen ==
  /\ s_pc = "idle"
  /\ s_path' = TestVideoPath
  /\ s_target' = TargetChunks(TargetFillPercent)
  /\ s_timeout' = SaveTimeoutArg
  /\ s_pre' = 0
  /\ s_post' = 0
  /\ \E fail \in FaultChoices :
       /\ Charge(fail)
       /\ IF fail                   \* open() raises
            THEN s_pc' = "raised" /\ UNCHANGED h264
            ELSE /\ h264' = [p \in DOMAIN h264 \cup {TestVideoPath} |->
                               IF p = TestVideoPath
                                 THEN [data |-> <<>>, synced |-> FALSE]
                                 ELSE h264[p]]
                 /\ s_pc' = "phase1"
  /\ UNCHANGED <<s_start, s_log, pending, pictures>>
  /\ UNCHANGED <<cfgVars, cmpVars, lifeVars, pollVars, now, ctlVars, ringVars, daemonVars>>

WriteFile(path, chunks) ==
  h264' = [h264 EXCEPT ![path] =
             [data |-> @.data \o chunks,
              synced |-> IF chunks = <<>> THEN @.synced ELSE FALSE]]

\* Phase 1: snapshot, skip to the first keyframe, write, flush
SavePhase1 ==
  /\ s_pc = "phase1"
  /\ \E fail \in FaultChoices :
       /\ Charge(fail)
       /\ IF fail                   \* f.write raises
            THEN s_pc' = "raised" /\ UNCHANGED <<h264, s_pre, s_log>>
            ELSE /\ WriteFile(s_path, DumpChunks(circular))
                 /\ s_pre' = Len(DumpChunks(circular))
                 /\ s_log' = IF FirstKeyframe(circular) = 0
                               THEN s_log \cup {"no_keyframe_pre"} ELSE s_log
                 /\ s_pc' = "clear"
  /\ UNCHANGED <<s_path, s_target, s_timeout, s_start, s_post, pending, pictures>>
  /\ UNCHANGED <<cfgVars, cmpVars, lifeVars, pollVars, now, ctlVars, ringVars, daemonVars>>

\* Phase 2: self.circular_output._circular.clear()
SaveClear ==
  /\ s_pc = "clear"
  /\ circular' = <<>>
  /\ s_pc' = "start_wait"
  /\ UNCHANGED <<s_path, s_target, s_timeout, s_start, s_pre, s_post, s_log, fsVars>>
  /\ UNCHANGED <<cfgVars, cmpVars, lifeVars, pollVars, now, ctlVars, faults, chunk_count, enc_pc, enc_chunk, produced, dropped, daemonVars>>

\* Phase 3: start_time = time.time()
SaveStartWait ==
  /\ s_pc = "start_wait"
  /\ s_start' = now
  /\ s_pc' = "wait"
  /\ UNCHANGED <<s_path, s_target, s_timeout, s_pre, s_post, s_log, fsVars>>
  /\ UNCHANGED <<cfgVars, cmpVars, lifeVars, pollVars, now, ctlVars, faults, ringVars, daemonVars>>

\* the polling loop without its while condition
SavePoll_NoTimeout ==
  /\ s_pc = "wait"
  /\ Len(circular) >= s_target
  /\ s_pc' = "phase4"
  /\ UNCHANGED <<s_path, s_target, s_timeout, s_start, s_pre, s_post, s_log, fsVars>>
  /\ UNCHANGED <<cfgVars, cmpVars, lifeVars, pollVars, now, ctlVars, faults, ringVars, daemonVars>>

\* Phase 3: the polling loop leaves either because the ring reached the
\* target (break) or because the while condition became false (else branch,
\* a warning); a pass that finds neither sleeps and changes nothing
SavePoll ==
  /\ s_pc = "wait"
  /\ IF now - s_start < s_timeout
       THEN /\ Len(circular) >= s_target
            /\ UNCHANGED s_log
       ELSE s_log' = s_log \cup {"timeout"}
  /\ s_pc' = "phase4"
  /\ UNCHANGED <<s_path, s_target, s_timeout, s_start, s_pre, s_post, fsVars>>
  /\ UNCHANGED <<cfgVars, cmpVars, lifeVars, pollVars, now, ctlVars, faults, ringVars, daemonVars>>

\* Phase 4: snapshot, skip to the first keyframe, write, flush
SavePhase4 ==
  /\ s_pc = "phase4"
  /\ \E fail \in FaultChoices :
       /\ Charge(fail)
       /\ IF fail                   \* f.write raises
            THEN s_pc' = "raised" /\ UNCHANGED <<h264, s_post, s_log>>
            ELSE /\ WriteFile(s_path, DumpChunks(circular))
                 /\ s_post' = Len(DumpChunks(circular))
                 /\ s_log' = IF FirstKeyframe(circular) = 0
                               THEN s_log \cup {"no_keyframe_post"} ELSE s_log
                 /\ s_pc' = "fsync"
  /\ UNCHANGED <<s_path, s_target, s_timeout, s_start, s_pre, pending, pictures>>
  /\ UNCHANGED <<cfgVars, cmpVars, lifeVars, pollVars, now, ctlVars, ringVars, daemonVars>>

\* os.fsync(f.fileno())
SaveFsync ==
  /\ s_pc = "fsync"
  /\ \E fail \in FaultChoices :
       /\ Charge(fail)
       /\ IF fail
            THEN s_pc' = "raised" /\ UNCHANGED h264
            ELSE /\ h264' = [h264 EXCEPT ![s_path].synced = TRUE]
                 /\ s_pc' = "verify"
  /\ UNCHANGED <<s_path, s_target, s_timeout, s_start, s_pre, s_post, s_log,
                 pending, pictures>>
  /\ UNCHANGED <<cfgVars, cmpVars, lifeVars, pollVars, now, ctlVars, ringVars, daemonVars>>

\* a report that divides by the pre-motion count
SaveVerify_DividesByPre ==
  /\ s_pc = "verify"
  /\ s_pc' = IF s_path \notin DOMAIN h264 THEN "raised"
             ELSE IF s_pre = 0 THEN "raised"
             ELSE "returned"
  /\ UNCHANGED <<s_path, s_target, s_timeout, s_start, s_pre, s_post, s_log, fsVars>>
  /\ UNCHANGED <<cfgVars, cmpVars, lifeVars, pollVars, now, ctlVars, faults, ringVars, daemonVars>>

\* the report after the file is closed: the per-phase shares divide by
\* total_chunks, so a save that wrote no chunk raises ZeroDivisionError
SaveVerify ==
  /\ s_pc = "verify"
  /\ s_pc' = IF s_path \notin DOMAIN h264 THEN "raised"
             ELSE IF s_pre + s_post = 0 THEN "raised"
             ELSE "returned"
  /\ UNCHANGED <<s_path, s_target, s_timeout, s_start, s_pre, s_post, s_log, fsVars>>
  /\ UNCHANGED <<cfgVars, cmpVars, lifeVars, pollVars, now, ctlVars, faults, ringVars, daemonVars>>

\* the handler at the end of the method logs and re-raises; the caller of
\* the save then sees the exception
SaveFinish ==
  /\ s_pc \in {"raised", "returned"}
  /\ s_log' = s_log \cup {s_pc}
  /\ s_pc' = "done"
  /\ UNCHANGED <<s_path, s_target, s_timeout, s_start, s_pre, s_post, fsVars>>
  /\ UNCHANGED <<cfgVars, cmpVars, lifeVars, pollVars, now, ctlVars, faults, ringVars, daemonVars>>

(***************************************************************************)
(* CircularBuffer objects: the camera, the capture thread and the frame    *)
(* pair.  last_frame_time = 0 stands for the attribute not being set yet   *)
(* (the watchdog reads it with getattr(cb, "last_frame_time", 0)).         *)
(***************************************************************************)
\* self.previous_frame = None, self.current_frame = None
NoFrame == 0

\* CircularBuffer.__init__; frame_count is the local of _capture_pictures,
\* and the n-th frame the camera delivers is named n
NewBuffer ==
  [running |-> FALSE, capture_interval |-> PICTURE_CAPTURE_INTERVAL,
   motion_detector |-> FALSE, camera |-> "none", thread |-> "none",
   last_frame_time |-> 0, frame_count |-> 0,
   previous_frame |-> NoFrame, current_frame |-> NoFrame]

\* CircularBuffer.start, when nothing raises
StartedBuffer(buf) ==
  [buf EXCEPT !.running = TRUE, !.camera = "open", !.thread = "alive"]

\* CircularBuffer.stop
StoppedBuffer(buf) ==
  [buf EXCEPT !.running = FALSE,
              !.thread = IF @ = "none" THEN "none" ELSE "dead",
              !.camera = IF @ = "none" THEN "none" ELSE "closed"]

\* the capture thread of buffer b is able to take a frame
Capturing(b) ==
  /\ buffers[b].running
  /\ buffers[b].thread = "alive"
  /\ buffers[b].camera = "open"

\* the capture thread of buffer b has something to do at this clock value:
\* its period (0.5 s or 0.1 s) is shorter than one Tick
CaptureDue(b) ==
  /\ Capturing(b)
  /\ \/ buffers[b].last_frame_time < now
     \/ buffers[b].previous_frame = NoFrame

\* (variant that overwrites current without moving it to previous)
PushFrame_NoShift(buf, frame) ==
  [buf EXCEPT !.current_frame = frame]

\* with self.frame_lock: previous_frame = current_frame; current_frame = frame
PushFrame(buf, frame) ==
  [buf EXCEPT !.previous_frame = buf.current_frame,
              !.current_frame = frame]

\* one iteration of _capture_pictures: capture_array, stamp, rotate the pair
CaptureFrame ==
  /\ \E b \in 1..Len(buffers) :
       /\ CaptureDue(b)
       /\ buffers' = [buffers EXCEPT
                        ![b] = PushFrame([@ EXCEPT
                                           !.last_frame_time = now,
                                           !.frame_count = @ + 1],
                                        buffers[b].frame_count + 1)]
  /\ UNCHANGED <<cfgVars, cmpVars, lifeVars, pollVars, now, ctlVars, faults, ringVars, saveVars, fsVars, storeVars, signalVars,
                 detVars, procVars, circular_buffer>>

\* get_frames_for_detection: (None, None) unless both slots are filled
GetFramesForDetection(buf) ==
  IF buf.previous_frame = NoFrame \/ buf.current_frame = NoFrame
    THEN <<NoFrame, NoFrame>>
    ELSE <<buf.previous_frame, buf.current_frame>>

\* the check of the detection loop: if prev_frame is None or curr_frame is None
FramesAvailable(b) ==
  LET pair == GetFramesForDetection(buffers[b]) IN
    pair[1] # NoFrame /\ pair[2] # NoFrame

\* capture_color_still raises when the camera is not usable, and when the
\* capture or the JPEG write fails
StillRaises(b, fail) ==
  \/ fail
  \/ b \notin 1..Len(buffers)
  \/ buffers[b].camera # "open"

(***************************************************************************)
(* Names and conversions.                                                  *)
(***************************************************************************)
\* database.adapt_datetime: dt.isoformat()
adapt_datetime(dt) == <<"iso", dt>>

\* timestamp.strftime('%Y.%m.%d--%H.%M.%S')
Strftime(dt) == <<"Y.m.d--H.M.S", dt>>

PicturePath(timestamp_str, suffix) == <<"pictures", timestamp_str, suffix>>
ThumbPath(timestamp_str) == <<"thumbs", timestamp_str, "_b.jpg">>
VideoPathMp4(timestamp_str) == <<"videos", timestamp_str, "mp4">>

\* filepath_mp4.replace('.mp4', '.h264')
ReplaceMp4(path) ==
  IF path[3] = "mp4" THEN <<path[1], path[2], "h264">> ELSE path

(***************************************************************************)
(* EventDatabase.                                                          *)
(***************************************************************************)
DefaultDuration == 30

\* (variant that swallows the sqlite3 error and returns a sentinel id)
AddNewEvent_Swallow(rows, timestamp, image_a_path, sqlite_error) ==
  IF sqlite_error
    THEN [raised |-> FALSE, id |-> 0, rows |-> rows]
    ELSE [raised |-> FALSE,
          id |-> Len(rows) + 1,
          rows |-> Append(rows, [timestamp |-> adapt_datetime(timestamp),
                                 image_a_path |-> image_a_path,
                                 image_b_path |-> None,
                                 thumbnail_path |-> None,
                                 video_path |-> None,
                                 duration_seconds |-> DefaultDuration])]

\* add_new_event: INSERT and return cursor.lastrowid; when sqlite3 fails
\* the method rolls back and re-raises
AddNewEvent(rows, timestamp, image_a_path, sqlite_error) ==
  IF sqlite_error
    THEN [raised |-> TRUE, id |-> 0, rows |-> rows]
    ELSE [raised |-> FALSE,
          id |-> Len(rows) + 1,
          rows |-> Append(rows, [timestamp |-> adapt_datetime(timestamp),
                                 image_a_path |-> image_a_path,
                                 image_b_path |-> None,
                                 thumbnail_path |-> None,
                                 video_path |-> None,
                                 duration_seconds |-> DefaultDuration])]

\* save_picture_b / save_thumbnail: UPDATE one column of the row; when
\* sqlite3 fails the method rolls back and returns normally
UpdateColumn(rows, id, column, value, sqlite_error) ==
  IF ~sqlite_error /\ id \in 1..Len(rows)
    THEN [rows EXCEPT ![id] = [@ EXCEPT ![column] = value]]
    ELSE rows

(***************************************************************************)
(* MotionDetector._detection_loop and _handle_motion_event.                *)
(***************************************************************************)
\* (variant without the cooldown)
InCooldown_Never(last, t) == FALSE

\* _in_cooldown
InCooldown(last, t) ==
  IF last = 0 THEN FALSE ELSE (t - last) < MOTION_COOLDOWN_SECONDS

\* one pass of the loop that finds motion: not paused, not in cooldown,
\* a frame pair is available and _compare_frames reports motion; the
\* handler starts by taking the timestamp
DetDetect ==
  /\ d_pc = "loop"
  /\ ~d_paused
  /\ ~InCooldown(last_detection_time, now)
  /\ d_buffer \in 1..Len(buffers)
  /\ FramesAvailable(d_buffer)
  /\ Len(events) < MaxEvents
  /\ d_timestamp' = now
  /\ d_pc' = "capture_a"
  /\ UNCHANGED <<d_paused, last_detection_time, d_buffer, d_event_id>>
  /\ UNCHANGED <<cfgVars, cmpVars, lifeVars, pollVars, now, ctlVars, faults, ringVars, saveVars, fsVars, storeVars, signalVars,
                 procVars, bufVars>>

\* (variant that enters the cooldown when the still capture fails)
DetCaptureA_Cooldown ==
  /\ d_pc = "capture_a"
  /\ \E fail \in FaultChoices :
       /\ Charge(fail)
       /\ IF StillRaises(d_buffer, fail)
            THEN /\ d_pc' = "loop"
                 /\ d_timestamp' = NoData.timestamp
                 /\ last_detection_time' = now
                 /\ UNCHANGED pictures
            ELSE /\ pictures' = pictures \cup
                                  {PicturePath(Strftime(d_timestamp), "_a.jpg")}
                 /\ d_pc' = "insert"
                 /\ UNCHANGED <<d_timestamp, last_detection_time>>
  /\ UNCHANGED <<d_paused, d_buffer, d_event_id>>
  /\ UNCHANGED <<cfgVars, cmpVars, lifeVars, pollVars, now, ctlVars, ringVars, saveVars, h264, pending, storeVars, signalVars,
                 procVars, bufVars>>

\* self.buffer.capture_color_still(image_a_path); an exception leaves the
\* handler without entering the cooldown
DetCaptureA ==
  /\ d_pc = "capture_a"
  /\ \E fail \in FaultChoices :
       /\ Charge(fail)
       /\ IF StillRaises(d_buffer, fail)
            THEN /\ d_pc' = "loop"
                 /\ d_timestamp' = NoData.timestamp
                 /\ UNCHANGED pictures
            ELSE /\ pictures' = pictures \cup
                                  {PicturePath(Strftime(d_timestamp), "_a.jpg")}
                 /\ d_pc' = "insert"
                 /\ UNCHANGED d_timestamp
  /\ UNCHANGED <<d_paused, last_detection_time, d_buffer, d_event_id>>
  /\ UNCHANGED <<cfgVars, cmpVars, lifeVars, pollVars, now, ctlVars, ringVars, saveVars, h264, pending, storeVars, signalVars,
                 procVars, bufVars>>

\* event_id = self.db.add_new_event(...)
DetInsert ==
  /\ d_pc = "insert"
  /\ \E sqlite_error \in FaultChoices :
     LET r == AddNewEvent(events, d_timestamp,
                          PicturePath(Strftime(d_timestamp), "_a.jpg"),
                          sqlite_error) IN
       /\ Charge(sqlite_error)
       /\ events' = r.rows
       /\ IF r.raised
            THEN d_pc' = "loop" /\ d_timestamp' = NoData.timestamp /\ d_event_id' = NoData.event_id
            ELSE d_pc' = "set_data" /\ d_event_id' = r.id /\ UNCHANGED d_timestamp
  /\ UNCHANGED <<d_paused, last_detection_time, d_buffer>>
  /\ UNCHANGED <<cfgVars, cmpVars, lifeVars, pollVars, now, ctlVars, ringVars, saveVars, fsVars, streaming, signalVars,
                 procVars, bufVars>>

\* MotionEvent.set, first half: the payload is written under the lock
DetSetData ==
  /\ d_pc = "set_data"
  /\ me_data' = [event_id |-> d_event_id, timestamp |-> d_timestamp]
  /\ me_sets' = Append(me_sets, [id |-> d_event_id, at |-> now])
  /\ d_pc' = "set_flag"
  /\ UNCHANGED <<me_event, me_got, me_log>>
  /\ UNCHANGED <<d_paused, last_detection_time, d_buffer, d_timestamp, d_event_id>>
  /\ UNCHANGED <<cfgVars, cmpVars, lifeVars, pollVars, now, ctlVars, faults, ringVars, saveVars, fsVars, storeVars, procVars, bufVars>>

\* MotionEvent.set, second half: self._event.set() and the log line
DetSetFlag ==
  /\ d_pc = "set_flag"
  /\ me_event' = TRUE
  /\ d_pc' = "cooldown"
  /\ me_log' = Append(me_log, [level |-> "INFO", event_id |-> d_event_id])
  /\ UNCHANGED <<me_data, me_sets, me_got>>
  /\ UNCHANGED <<d_paused, last_detection_time, d_buffer, d_timestamp, d_event_id>>
  /\ UNCHANGED <<cfgVars, cmpVars, lifeVars, pollVars, now, ctlVars, faults, ringVars, saveVars, fsVars, storeVars, procVars, bufVars>>

\* (variant that does not stamp the detection)
DetCooldown_NoStamp ==
  /\ d_pc = "cooldown"
  /\ d_pc' = "loop"
  /\ d_timestamp' = NoData.timestamp
  /\ d_event_id' = NoData.event_id
  /\ UNCHANGED <<d_paused, last_detection_time, d_buffer>>
  /\ UNCHANGED <<cfgVars, cmpVars, lifeVars, pollVars, now, ctlVars, faults, ringVars, saveVars, fsVars, storeVars, signalVars,
                 procVars, bufVars>>

\* self.last_detection_time = time.time()
DetCooldown ==
  /\ d_pc = "cooldown"
  /\ last_detection_time' = now
  /\ d_pc' = "loop"
  /\ d_timestamp' = NoData.timestamp
  /\ d_event_id' = NoData.event_id
  /\ UNCHANGED <<d_paused, d_buffer>>
  /\ UNCHANGED <<cfgVars, cmpVars, lifeVars, pollVars, now, ctlVars, faults, ringVars, saveVars, fsVars, storeVars, signalVars,
                 procVars, bufVars>>

(***************************************************************************)
(* EventProcessor._processing_loop and _process_event.                     *)
(***************************************************************************)
\* the pause guard at the top of the loop, then the call of wait_and_get
ProcEnterWait ==
  /\ ep_pc = "loop"
  /\ ~ep_paused
  /\ ep_pc' = "wait"
  /\ UNCHANGED <<ep_wake, ep_paused, ep_buffer, ep_data, ep_opfail>>
  /\ UNCHANGED <<cfgVars, cmpVars, lifeVars, pollVars, now, ctlVars, faults, ringVars, saveVars, fsVars, storeVars, signalVars,
                 detVars, bufVars>>

\* wait_and_get: self._event.wait() returns once the flag is set
ProcWait ==
  /\ ep_pc = "wait"
  /\ me_event
  /\ ep_pc' = "get"
  /\ UNCHANGED <<ep_wake, ep_paused, ep_buffer, ep_data, ep_opfail>>
  /\ UNCHANGED <<cfgVars, cmpVars, lifeVars, pollVars, now, ctlVars, faults, ringVars, saveVars, fsVars, storeVars, signalVars,
                 detVars, bufVars>>

\* wait_and_get: data = self._data.copy() under the lock
ProcGet ==
  /\ ep_pc = "get"
  /\ ep_data' = me_data
  /\ ep_pc' = "clear"
  /\ UNCHANGED <<ep_wake, ep_paused, ep_buffer, ep_opfail>>
  /\ UNCHANGED <<cfgVars, cmpVars, lifeVars, pollVars, now, ctlVars, faults, ringVars, saveVars, fsVars, storeVars, signalVars,
                 detVars, bufVars>>

\* wait_and_get: self._event.clear() and return data
ProcClear ==
  /\ ep_pc = "clear"
  /\ me_event' = FALSE
  /\ me_got' = Append(me_got, ep_data.event_id)
  /\ ep_pc' = "recheck"
  /\ UNCHANGED <<me_data, me_sets, me_log>>
  /\ UNCHANGED <<ep_wake, ep_paused, ep_buffer, ep_data, ep_opfail>>
  /\ UNCHANGED <<cfgVars, cmpVars, lifeVars, pollVars, now, ctlVars, faults, ringVars, saveVars, fsVars, storeVars, detVars, bufVars>>

\* the second pause guard: an event received while paused is discarded;
\* otherwise _process_event starts and goes to sleep for the picture-B delay
ProcRecheck ==
  /\ ep_pc = "recheck"
  /\ IF ep_paused
       THEN ep_pc' = "loop" /\ ep_data' = NoData /\ UNCHANGED ep_wake
       ELSE /\ ep_pc' = "picture_b"
            /\ ep_wake' = now + PictureBDelay
            /\ UNCHANGED ep_data
  /\ ep_opfail' = FALSE
  /\ UNCHANGED <<ep_paused, ep_buffer>>
  /\ UNCHANGED <<cfgVars, cmpVars, lifeVars, pollVars, now, ctlVars, faults, ringVars, saveVars, fsVars, storeVars, signalVars,
                 detVars, bufVars>>

\* steps 1 and 2 of _process_event: sleep, capture_color_still, save_picture_b
ProcPictureB ==
  /\ ep_pc = "picture_b"
  /\ now >= ep_wake
  /\ LET image_b_path == PicturePath(Strftime(ep_data.timestamp), "_b.jpg") IN
     \E fail \in FaultChoices, sqlite_error \in FaultChoices :
       /\ ~(fail /\ sqlite_error)
       /\ Charge(fail \/ sqlite_error)
       /\ IF StillRaises(ep_buffer, fail)
            THEN /\ ~sqlite_error
                 /\ ep_opfail' = TRUE
                 /\ ep_pc' = "complete"
                 /\ UNCHANGED <<pictures, events>>
            ELSE /\ pictures' = pictures \cup {image_b_path}
                 /\ events' = UpdateColumn(events, ep_data.event_id,
                                           "image_b_path", image_b_path,
                                           sqlite_error)
                 /\ ep_opfail' = sqlite_error
                 /\ ep_pc' = "thumbnail"
  /\ ep_wake' = 0                  \* the sleep has returned
  /\ UNCHANGED <<ep_paused, ep_buffer, ep_data>>
  /\ UNCHANGED <<cfgVars, cmpVars, lifeVars, pollVars, now, ctlVars, ringVars, saveVars, h264, pending, streaming, signalVars,
                 detVars, bufVars>>

\* step 3 of _process_event: _create_thumbnail, save_thumbnail
ProcThumbnail ==
  /\ ep_pc = "thumbnail"
  /\ LET thumbnail_path == ThumbPath(Strftime(ep_data.timestamp)) IN
     \E fail \in FaultChoices, sqlite_error \in FaultChoices :
       /\ ~(fail /\ sqlite_error)
       /\ Charge(fail \/ sqlite_error)
       /\ IF fail                   \* _create_thumbnail raises
            THEN /\ ep_opfail' = TRUE
                 /\ ep_pc' = "complete"
                 /\ UNCHANGED <<pictures, events>>
            ELSE /\ pictures' = pictures \cup {thumbnail_path}
                 /\ events' = UpdateColumn(events, ep_data.event_id,
                                           "thumbnail_path", thumbnail_path,
                                           sqlite_error)
                 /\ ep_opfail' = (ep_opfail \/ sqlite_error)
                 /\ ep_pc' = "save_video"
  /\ UNCHANGED <<ep_wake, ep_paused, ep_buffer, ep_data>>
  /\ UNCHANGED <<cfgVars, cmpVars, lifeVars, pollVars, now, ctlVars, ringVars, saveVars, h264, pending, streaming, signalVars,
                 detVars, bufVars>>

\* the parameters save_h264_as_mp4 declares besides self
save_h264_as_mp4_params ==
  {"filepath_mp4", "use_continuation", "target_fill_percent", "timeout_seconds"}

\* the keyword arguments _process_event passes to it
ProcessEventKeywords == {"use_continuation", "continuation_seconds"}

\* the names config.py defines that the buffer module imports
ConfigNames ==
  {"VIDEO_RESOLUTION", "VIDEO_FRAMERATE", "VIDEO_BITRATE", "JPEG_QUALITY",
   "CAMERA_WARMUP_SECONDS", "CIRCULAR_BUFFER_SECONDS",
   "CIRCULAR_BUFFER_MAX_CHUNKS", "CIRCULAR_BUFFER_MAX_BYTES",
   "PICTURE_CAPTURE_INTERVAL", "LIVESTREAM_CAPTURE_INTERVAL",
   "DETECTION_RESOLUTION", "POST_MOTION_SECONDS"}

\* the names save_h264_as_mp4 imports from config before its try block
SaveH264Imports ==
  {"POST_MOTION_BUFFER_FILL_PERCENT", "POST_MOTION_TIMEOUT_SECONDS",
   "CIRCULAR_BUFFER_MAX_CHUNKS"}

\* a call of save_h264_as_mp4 raises before any file is touched when a
\* keyword is not a parameter (TypeError) or an imported name is missing
\* from config (ImportError)
SaveH264CallRaises(keywords) ==
  \/ ~(keywords \subseteq save_h264_as_mp4_params)
  \/ ~(SaveH264Imports \subseteq ConfigNames)

\* a step 4 that writes video_path before it calls the save
ProcSaveVideo_StoreFirst ==
  /\ ep_pc = "save_video"
  /\ events' = UpdateColumn(events, ep_data.event_id, "video_path",
                            VideoPathMp4(Strftime(ep_data.timestamp)), FALSE)
  /\ IF SaveH264CallRaises(ProcessEventKeywords)
       THEN ep_pc' = "complete"
       ELSE ep_pc' = "in_save"
  /\ UNCHANGED <<ep_wake, ep_paused, ep_buffer, ep_data, ep_opfail>>
  /\ UNCHANGED <<cfgVars, cmpVars, lifeVars, pollVars, now, ctlVars, faults, ringVars, saveVars, fsVars, streaming, signalVars,
                 detVars, bufVars>>

\* step 4 of _process_event: self.buffer.save_h264_as_mp4(video_path,
\* use_continuation=True, continuation_seconds=POST_MOTION_SECONDS), then
\* self.db.save_video(event_id, video_path).  The call raises, the handler
\* of _process_event logs the error and the method returns.
ProcSaveVideo ==
  /\ ep_pc = "save_video"
  /\ IF SaveH264CallRaises(ProcessEventKeywords)
       THEN ep_pc' = "complete"
       ELSE ep_pc' = "in_save"
  /\ UNCHANGED <<ep_wake, ep_paused, ep_buffer, ep_data, ep_opfail>>
  /\ UNCHANGED <<cfgVars, cmpVars, lifeVars, pollVars, now, ctlVars, faults, ringVars, saveVars, fsVars, storeVars, signalVars,
                 detVars, bufVars>>

\* back in the loop: "Event ... processing complete"
ProcComplete ==
  /\ ep_pc = "complete"
  /\ ep_pc' = "loop"
  /\ ep_data' = NoData
  /\ ep_opfail' = FALSE
  /\ UNCHANGED <<ep_wake, ep_paused, ep_buffer>>
  /\ UNCHANGED <<cfgVars, cmpVars, lifeVars, pollVars, now, ctlVars, faults, ringVars, saveVars, fsVars, storeVars, signalVars,
                 detVars, bufVars>>

(***************************************************************************)
(* The camera watchdog: watchdog_loop and _perform_full_recovery.          *)
(***************************************************************************)
\* (variant that looks at the thread only)
StallDetected_ThreadOnly(cb, t) == buffers[cb].thread # "alive"

\* frame_age > 10 or not thread_alive, for the buffer cb the loop read
StallDetected(cb, t) ==
  \/ t - buffers[cb].last_frame_time > StallSeconds
  \/ buffers[cb].thread # "alive"

\* (variant that suppresses for 30 s)
RestartSuppressed_Half(last, t) == t - last < RestartSuppressSeconds \div 2

\* now - last_restart_time < 60
RestartSuppressed(last, t) == t - last < RestartSuppressSeconds

\* the camera stops delivering frames: capture_array no longer returns
CameraStall ==
  /\ faults < MaxFaults
  /\ faults' = faults + 1
  /\ \E b \in 1..Len(buffers) :
       /\ Capturing(b)
       /\ buffers' = [buffers EXCEPT ![b].camera = "stalled"]
  /\ UNCHANGED <<cfgVars, cmpVars, lifeVars, pollVars, now, ctlVars, ringVars, saveVars, fsVars, storeVars, signalVars,
                 detVars, procVars, circular_buffer>>

\* one pass of watchdog_loop up to the call of _perform_full_recovery or
\* the time.sleep(5) that ends the pass.  With self.circular_buffer None
\* the attribute access raises and the handler of the loop sleeps.
W_Check ==
  /\ w_pc = "sleep"
  /\ now >= w_next
  /\ IF circular_buffer = NoBuffer
       THEN /\ w_next' = now + WatchdogSleepSeconds
            /\ UNCHANGED <<w_pc, last_restart_time, timeout_count, w_starts>>
       ELSE IF StallDetected(circular_buffer, now)
         THEN /\ timeout_count' = timeout_count + 1
              /\ IF RestartSuppressed(last_restart_time, now)
                   THEN /\ w_next' = now + WatchdogSleepSeconds
                        /\ UNCHANGED <<w_pc, last_restart_time, w_starts>>
                   ELSE /\ Len(buffers) < MaxBuffers
                        /\ last_restart_time' = now
                        /\ w_starts' = Append(w_starts, now)
                        /\ w_pc' = "pause_detector"
                        /\ UNCHANGED w_next
         ELSE /\ timeout_count' =
                   IF timeout_count > 0
                      /\ now - buffers[circular_buffer].last_frame_time < 2
                     THEN 0 ELSE timeout_count
              /\ w_next' = now + WatchdogSleepSeconds
              /\ UNCHANGED <<w_pc, last_restart_time, w_starts>>
  /\ UNCHANGED w_outcome
  /\ UNCHANGED <<cfgVars, cmpVars, lifeVars, pollVars, now, mjpegVars, faults, ringVars, saveVars, fsVars, daemonVars>>

\* self.motion_detector.pause()
W_PauseDetector ==
  /\ w_pc = "pause_detector"
  /\ d_paused' = TRUE
  /\ w_pc' = "pause_processor"
  /\ UNCHANGED <<w_next, last_restart_time, timeout_count, w_outcome, w_starts>>
  /\ UNCHANGED <<d_pc, last_detection_time, d_buffer, d_timestamp, d_event_id>>
  /\ UNCHANGED <<cfgVars, cmpVars, lifeVars, pollVars, now, mjpegVars, faults, ringVars, saveVars, fsVars, storeVars,
                 signalVars, procVars, bufVars>>

\* self.event_processor.pause()
W_PauseProcessor ==
  /\ w_pc = "pause_processor"
  /\ ep_paused' = TRUE
  /\ w_pc' = "stop_buffer"
  /\ UNCHANGED <<w_next, last_restart_time, timeout_count, w_outcome, w_starts>>
  /\ UNCHANGED <<ep_wake, ep_pc, ep_buffer, ep_data, ep_opfail>>
  /\ UNCHANGED <<cfgVars, cmpVars, lifeVars, pollVars, now, mjpegVars, faults, ringVars, saveVars, fsVars, storeVars,
                 signalVars, detVars, bufVars>>

\* self.circular_buffer.stop()
W_StopBuffer ==
  /\ w_pc = "stop_buffer"
  /\ buffers' = [buffers EXCEPT ![circular_buffer] = StoppedBuffer(@)]
  /\ w_pc' = "drop_buffer"
  /\ UNCHANGED <<w_next, last_restart_time, timeout_count, w_outcome, w_starts>>
  /\ UNCHANGED <<cfgVars, cmpVars, lifeVars, pollVars, now, mjpegVars, faults, ringVars, saveVars, fsVars, storeVars,
                 signalVars, detVars, procVars, circular_buffer>>

\* self.circular_buffer = None, gc.collect(), drop_caches
W_DropBuffer ==
  /\ w_pc = "drop_buffer"
  /\ circular_buffer' = NoBuffer
  /\ w_pc' = "new_buffer"
  /\ UNCHANGED <<w_next, last_restart_time, timeout_count, w_outcome, w_starts>>
  /\ UNCHANGED <<cfgVars, cmpVars, lifeVars, pollVars, now, mjpegVars, faults, ringVars, saveVars, fsVars, storeVars,
                 signalVars, detVars, procVars, buffers>>

\* self.circular_buffer = CircularBuffer()
W_NewBuffer ==
  /\ w_pc = "new_buffer"
  /\ buffers' = Append(buffers, NewBuffer)
  /\ circular_buffer' = Len(buffers) + 1
  /\ w_pc' = "start_buffer"
  /\ UNCHANGED <<w_next, last_restart_time, timeout_count, w_outcome, w_starts>>
  /\ UNCHANGED <<cfgVars, cmpVars, lifeVars, pollVars, now, mjpegVars, faults, ringVars, saveVars, fsVars, storeVars,
                 signalVars, detVars, procVars>>

\* self.circular_buffer.start(); when it raises (start() has then called
\* self.stop()), the handler of _perform_full_recovery takes over
W_StartBuffer ==
  /\ w_pc = "start_buffer"
  /\ \E fail \in FaultChoices :
       /\ Charge(fail)
       /\ IF fail
            THEN /\ buffers' = [buffers EXCEPT
                                  ![circular_buffer] = StoppedBuffer(@)]
                 /\ w_pc' = "failed"
            ELSE /\ buffers' = [buffers EXCEPT
                                  ![circular_buffer] = StartedBuffer(@)]
                 /\ w_pc' = "link_detector"
  /\ UNCHANGED <<w_next, last_restart_time, timeout_count, w_outcome, w_starts>>
  /\ UNCHANGED <<cfgVars, cmpVars, lifeVars, pollVars, now, mjpegVars, ringVars, saveVars, fsVars, storeVars,
                 signalVars, detVars, procVars, circular_buffer>>

\* self.circular_buffer.set_motion_detector(self.motion_detector)
W_LinkDetector ==
  /\ w_pc = "link_detector"
  /\ buffers' = [buffers EXCEPT ![circular_buffer].motion_detector = TRUE]
  /\ w_pc' = "rebind_mjpeg"
  /\ UNCHANGED <<w_next, last_restart_time, timeout_count, w_outcome, w_starts>>
  /\ UNCHANGED <<cfgVars, cmpVars, lifeVars, pollVars, now, mjpegVars, faults, ringVars, saveVars, fsVars, storeVars,
                 signalVars, detVars, procVars, circular_buffer>>

\* self.mjpeg_server.buffer = self.circular_buffer
W_RebindMjpeg ==
  /\ w_pc = "rebind_mjpeg"
  /\ mjpeg_buffer' = circular_buffer
  /\ w_pc' = "attach_detector"
  /\ UNCHANGED <<w_next, last_restart_time, timeout_count, w_outcome, w_starts>>
  /\ UNCHANGED <<m_pc, m_self, server_active, streaming_start_time,
                 server_open,
                 server_circular_buffer, h_active, h_buffer, active_clients,
                 timers, toggles, connects>>
  /\ UNCHANGED <<cfgVars, cmpVars, lifeVars, pollVars, now, faults, ringVars, saveVars, fsVars, daemonVars>>

\* self.motion_detector.attach_buffer(self.circular_buffer)
W_AttachDetector ==
  /\ w_pc = "attach_detector"
  /\ d_buffer' = circular_buffer
  /\ w_pc' = "rebind_processor"
  /\ UNCHANGED <<w_next, last_restart_time, timeout_count, w_outcome, w_starts>>
  /\ UNCHANGED <<d_pc, d_paused, last_detection_time, d_timestamp, d_event_id>>
  /\ UNCHANGED <<cfgVars, cmpVars, lifeVars, pollVars, now, mjpegVars, faults, ringVars, saveVars, fsVars, storeVars,
                 signalVars, procVars, bufVars>>

\* self.event_processor.buffer = self.circular_buffer
W_RebindProcessor ==
  /\ w_pc = "rebind_processor"
  /\ ep_buffer' = circular_buffer
  /\ w_pc' = "resume_detector"
  /\ UNCHANGED <<w_next, last_restart_time, timeout_count, w_outcome, w_starts>>
  /\ UNCHANGED <<ep_wake, ep_pc, ep_paused, ep_data, ep_opfail>>
  /\ UNCHANGED <<cfgVars, cmpVars, lifeVars, pollVars, now, mjpegVars, faults, ringVars, saveVars, fsVars, storeVars,
                 signalVars, detVars, bufVars>>

\* self.motion_detector.resume()
W_ResumeDetector ==
  /\ w_pc = "resume_detector"
  /\ d_paused' = FALSE
  /\ w_pc' = "resume_processor"
  /\ UNCHANGED <<w_next, last_restart_time, timeout_count, w_outcome, w_starts>>
  /\ UNCHANGED <<d_pc, last_detection_time, d_buffer, d_timestamp, d_event_id>>
  /\ UNCHANGED <<cfgVars, cmpVars, lifeVars, pollVars, now, mjpegVars, faults, ringVars, saveVars, fsVars, storeVars,
                 signalVars, procVars, bufVars>>

\* self.event_processor.resume(), "RECOVERY COMPLETE", and back in the
\* loop the reset of a timeout_count above 10 and time.sleep(5)
W_ResumeProcessor ==
  /\ w_pc = "resume_processor"
  /\ ep_paused' = FALSE
  /\ w_outcome' = "complete"
  /\ timeout_count' = IF timeout_count > 10 THEN 0 ELSE timeout_count
  /\ w_next' = now + WatchdogSleepSeconds
  /\ w_pc' = "sleep"
  /\ UNCHANGED <<last_restart_time, w_starts>>
  /\ UNCHANGED <<ep_wake, ep_pc, ep_buffer, ep_data, ep_opfail>>
  /\ UNCHANGED <<cfgVars, cmpVars, lifeVars, pollVars, now, mjpegVars, faults, ringVars, saveVars, fsVars, storeVars,
                 signalVars, detVars, bufVars>>

\* the handler of _perform_full_recovery: "Recovery failed", the reboot
\* attempt, and the return into the loop
W_Failed ==
  /\ w_pc = "failed"
  /\ w_outcome' = "failed"
  /\ timeout_count' = IF timeout_count > 10 THEN 0 ELSE timeout_count
  /\ w_next' = now + WatchdogSleepSeconds
  /\ w_pc' = "sleep"
  /\ UNCHANGED <<last_restart_time, w_starts>>
  /\ UNCHANGED <<cfgVars, cmpVars, lifeVars, pollVars, now, mjpegVars, faults, ringVars, saveVars, fsVars, daemonVars>>

(***************************************************************************)
(* MJPEGServer: the monitor thread, the HTTP server and its handler, and   *)
(* CircularBuffer.start_streaming / stop_streaming, which run on the       *)
(* monitor thread.                                                         *)
(***************************************************************************)
\* the web UI writes system_control.streaming
SetStreaming ==
  /\ toggles < MaxToggles
  /\ toggles' = toggles + 1
  /\ streaming' = 1 - streaming
  /\ UNCHANGED <<m_pc, m_self, server_active, streaming_start_time,
                 mjpeg_buffer, server_open,
                 server_circular_buffer, h_active, h_buffer, active_clients,
                 timers, connects>>
  /\ UNCHANGED <<cfgVars, cmpVars, lifeVars, pollVars, now, watchVars, faults, ringVars, saveVars, fsVars, events,
                 signalVars, detVars, procVars, bufVars>>

\* one pass of _monitor_streaming_flag that finds a transition to make
M_Poll ==
  /\ m_pc = "poll"
  /\ \/ streaming = 1 /\ ~server_active /\ m_pc' = "start_interval"
     \/ streaming = 0 /\ server_active /\ m_pc' = "stop_http"
  /\ UNCHANGED <<m_self, server_active, streaming_start_time,
                 mjpeg_buffer, server_open,
                 server_circular_buffer, h_active, h_buffer, active_clients,
                 timers, toggles, connects>>
  /\ UNCHANGED <<cfgVars, cmpVars, lifeVars, pollVars, now, watchVars, faults, ringVars, saveVars, fsVars, daemonVars>>

\* a pass that finds the session at its hard cap:
\* streaming == 1 and server_active, elapsed >= STREAMING_TIMEOUT
M_PollTimeout ==
  /\ m_pc = "poll"
  /\ streaming = 1 /\ server_active
  /\ streaming_start_time # 0
  /\ now - streaming_start_time >= STREAMING_TIMEOUT
  /\ m_pc' = "timeout_flag"
  /\ UNCHANGED <<m_self, server_active, streaming_start_time, mjpeg_buffer,
                 server_open, server_circular_buffer, h_active, h_buffer,
                 active_clients, timers, toggles, connects>>
  /\ UNCHANGED <<cfgVars, cmpVars, lifeVars, pollVars, now, watchVars, faults, ringVars, saveVars, fsVars, daemonVars>>

\* (variant of the timeout branch that leaves the flag alone)
M_TimeoutFlag_Skip ==
  /\ m_pc = "timeout_flag"
  /\ m_pc' = "stop_http"
  /\ UNCHANGED streaming
  /\ UNCHANGED <<m_self, server_active, streaming_start_time, mjpeg_buffer,
                 server_open, server_circular_buffer, h_active, h_buffer,
                 active_clients, timers, toggles, connects>>
  /\ UNCHANGED <<cfgVars, cmpVars, lifeVars, pollVars, now, watchVars, faults, ringVars, saveVars, fsVars, events,
                 signalVars, detVars, procVars, bufVars>>

\* the timeout branch: self.db.set_streaming_flag(0), then the stop sequence
M_TimeoutFlag ==
  /\ m_pc = "timeout_flag"
  /\ streaming' = 0
  /\ m_pc' = "stop_http"
  /\ UNCHANGED <<m_self, server_active, streaming_start_time, mjpeg_buffer,
                 server_open, server_circular_buffer, h_active, h_buffer,
                 active_clients, timers, toggles, connects>>
  /\ UNCHANGED <<cfgVars, cmpVars, lifeVars, pollVars, now, watchVars, faults, ringVars, saveVars, fsVars, events,
                 signalVars, detVars, procVars, bufVars>>

\* self.buffer.start_streaming(): self.capture_interval = LIVESTREAM_...
M_StartInterval ==
  /\ m_pc = "start_interval"
  /\ m_self' = mjpeg_buffer
  /\ buffers' = [buffers EXCEPT
                   ![mjpeg_buffer].capture_interval = LIVESTREAM_CAPTURE_INTERVAL]
  /\ m_pc' = "start_pause"
  /\ UNCHANGED <<server_active, streaming_start_time,
                 mjpeg_buffer, server_open,
                 server_circular_buffer, h_active, h_buffer, active_clients,
                 timers, toggles, connects>>
  /\ UNCHANGED <<cfgVars, cmpVars, lifeVars, pollVars, now, watchVars, faults, ringVars, saveVars, fsVars, storeVars,
                 signalVars, detVars, procVars, circular_buffer>>

\* start_streaming: if self.motion_detector: self.motion_detector.pause()
M_StartPause ==
  /\ m_pc = "start_pause"
  /\ d_paused' = IF buffers[m_self].motion_detector THEN TRUE ELSE d_paused
  /\ m_pc' = "start_http"
  /\ UNCHANGED <<m_self, server_active, streaming_start_time,
                 mjpeg_buffer, server_open,
                 server_circular_buffer, h_active, h_buffer, active_clients,
                 timers, toggles, connects>>
  /\ UNCHANGED <<d_pc, last_detection_time, d_buffer, d_timestamp, d_event_id>>
  /\ UNCHANGED <<cfgVars, cmpVars, lifeVars, pollVars, now, watchVars, faults, ringVars, saveVars, fsVars, storeVars,
                 signalVars, procVars, bufVars>>

\* self._start_http_server(), then server_active = True.  When HTTPServer
\* cannot be created the method logs and leaves self.server None.
M_StartHttp ==
  /\ m_pc = "start_http"
  /\ \E fail \in FaultChoices :
       /\ Charge(fail)
       /\ server_open' = ~fail
       /\ server_circular_buffer' = IF fail THEN NoBuffer ELSE mjpeg_buffer
  /\ server_active' = TRUE
  /\ streaming_start_time' = now
  /\ m_pc' = "poll"
  /\ UNCHANGED <<m_self, mjpeg_buffer, h_active, h_buffer, active_clients,
                 timers, toggles, connects>>
  /\ UNCHANGED <<cfgVars, cmpVars, lifeVars, pollVars, now, watchVars, ringVars, saveVars, fsVars, daemonVars>>

\* self._stop_http_server(): shutdown with a 3 s join, self.server = None.
\* When the shutdown raises or outlasts the join the socket stays open.
\* A handler that is streaming keeps running on the server thread.
M_StopHttp ==
  /\ m_pc = "stop_http"
  /\ \E fail \in FaultChoices :
       /\ Charge(fail)
       /\ server_open' = fail
  /\ server_circular_buffer' = NoBuffer
  /\ m_pc' = "stop_interval"
  /\ UNCHANGED <<m_self, server_active, streaming_start_time,
                 mjpeg_buffer, h_active, h_buffer,
                 active_clients, timers, toggles, connects>>
  /\ UNCHANGED <<cfgVars, cmpVars, lifeVars, pollVars, now, watchVars, ringVars, saveVars, fsVars, daemonVars>>

\* self.buffer.stop_streaming(): self.capture_interval = PICTURE_...
M_StopInterval ==
  /\ m_pc = "stop_interval"
  /\ m_self' = mjpeg_buffer
  /\ buffers' = [buffers EXCEPT
                   ![mjpeg_buffer].capture_interval = PICTURE_CAPTURE_INTERVAL]
  /\ m_pc' = "stop_resume"
  /\ UNCHANGED <<server_active, streaming_start_time,
                 mjpeg_buffer, server_open,
                 server_circular_buffer, h_active, h_buffer, active_clients,
                 timers, toggles, connects>>
  /\ UNCHANGED <<cfgVars, cmpVars, lifeVars, pollVars, now, watchVars, faults, ringVars, saveVars, fsVars, storeVars,
                 signalVars, detVars, procVars, circular_buffer>>

\* stop_streaming: if self.motion_detector: self.motion_detector.resume(),
\* then server_active = False
M_StopResume ==
  /\ m_pc = "stop_resume"
  /\ d_paused' = IF buffers[m_self].motion_detector THEN FALSE ELSE d_paused
  /\ server_active' = FALSE
  /\ streaming_start_time' = 0
  /\ m_pc' = "poll"
  /\ UNCHANGED <<m_self, mjpeg_buffer, server_open, server_circular_buffer,
                 h_active, h_buffer, active_clients, timers, toggles, connects>>
  /\ UNCHANGED <<d_pc, last_detection_time, d_buffer, d_timestamp, d_event_id>>
  /\ UNCHANGED <<cfgVars, cmpVars, lifeVars, pollVars, now, watchVars, faults, ringVars, saveVars, fsVars, storeVars,
                 signalVars, procVars, bufVars>>

\* a client requests /stream.mjpg: serve_mjpeg_stream calls
\* client_connected and streams from self.server.circular_buffer
ClientConnect ==
  /\ server_open
  /\ ~h_active
  /\ connects < MaxConnects
  /\ connects' = connects + 1
  /\ h_active' = TRUE
  /\ h_buffer' = server_circular_buffer
  /\ active_clients' = active_clients + 1
  /\ UNCHANGED <<m_pc, m_self, server_active, streaming_start_time,
                 mjpeg_buffer, server_open,
                 server_circular_buffer, timers, toggles>>
  /\ UNCHANGED <<cfgVars, cmpVars, lifeVars, pollVars, now, watchVars, faults, ringVars, saveVars, fsVars, daemonVars>>

\* (variant without the finally clause: the stream ends and the handler
\* returns without client_disconnected)
ClientDisconnect_Leak ==
  /\ h_active
  /\ h_active' = FALSE
  /\ h_buffer' = NoBuffer
  /\ UNCHANGED <<m_pc, m_self, server_active, streaming_start_time,
                 mjpeg_buffer, server_open, active_clients, timers,
                 server_circular_buffer, toggles, connects>>
  /\ UNCHANGED <<cfgVars, cmpVars, lifeVars, pollVars, now, watchVars, faults, ringVars, saveVars, fsVars, daemonVars>>

\* the client goes away: the finally clause calls client_disconnected,
\* which starts a 5 s timer when no client is left
ClientDisconnect ==
  /\ h_active
  /\ h_active' = FALSE
  /\ h_buffer' = NoBuffer
  /\ active_clients' = active_clients - 1
  /\ timers' = IF active_clients - 1 = 0
                 THEN timers \cup {now + StopTimerSeconds} ELSE timers
  /\ UNCHANGED <<m_pc, m_self, server_active, streaming_start_time,
                 mjpeg_buffer, server_open,
                 server_circular_buffer, toggles, connects>>
  /\ UNCHANGED <<cfgVars, cmpVars, lifeVars, pollVars, now, watchVars, faults, ringVars, saveVars, fsVars, daemonVars>>

\* (variant of the timer's check that does not look at the client count)
TimerFire_Unconditional ==
  /\ \E due \in timers :
       /\ now >= due
       /\ timers' = timers \ {due}
  /\ streaming' = 0
  /\ UNCHANGED <<m_pc, m_self, server_active, streaming_start_time,
                 mjpeg_buffer, server_open,
                 server_circular_buffer, h_active, h_buffer, active_clients,
                 toggles, connects>>
  /\ UNCHANGED <<cfgVars, cmpVars, lifeVars, pollVars, now, watchVars, faults, ringVars, saveVars, fsVars, events,
                 signalVars, detVars, procVars, bufVars>>

\* _check_and_stop_streaming, run by the timer
TimerFire ==
  /\ \E due \in timers :
       /\ now >= due
       /\ timers' = timers \ {due}
  /\ streaming' = IF active_clients = 0 THEN 0 ELSE streaming
  /\ UNCHANGED <<m_pc, m_self, server_active, streaming_start_time,
                 mjpeg_buffer, server_open,
                 server_circular_buffer, h_active, h_buffer, active_clients,
                 toggles, connects>>
  /\ UNCHANGED <<cfgVars, cmpVars, lifeVars, pollVars, now, watchVars, faults, ringVars, saveVars, fsVars, events,
                 signalVars, detVars, procVars, bufVars>>

(***************************************************************************)
(* SecurityCameraSystem: main(), run(), initialize(), start(), stop() and  *)
(* signal_handler on the main thread, and the loop of every worker thread  *)
(* as far as its running flag is concerned.                                *)
(***************************************************************************)
NoExit == 0 - 1

Step(op, what) == [op |-> op, what |-> what]

\* the statements of initialize(), in order
InitializeSteps ==
  << Step("call", "validate_config"), Step("call", "ensure_directories"),
     Step("construct", "database"), Step("reset", "streaming"),
     Step("construct", "motion_event"), Step("construct", "buffer"),
     Step("construct", "detector"), Step("construct", "processor"),
     Step("construct", "mjpeg") >>

\* (variant of start() that starts the detector before the processor)
StartSteps_DetectorFirst ==
  << Step("start", "buffer"), Step("link", "detector"),
     Step("start", "detector"), Step("start", "processor"),
     Step("start", "watchdog"), Step("start", "mjpeg") >>

\* the statements of start(), in order
StartSteps ==
  << Step("start", "buffer"), Step("link", "detector"),
     Step("start", "processor"), Step("start", "detector"),
     Step("start", "watchdog"), Step("start", "mjpeg") >>

\* the statements of stop(), in order
StopSteps ==
  << Step("stop", "detector"), Step("stop", "processor"),
     Step("stop", "mjpeg"), Step("stop", "buffer") >>

Threads == {"capture", "processor", "detector", "watchdog", "monitor"}

\* the components that carry a running attribute
Flagged == {"buffer", "processor", "detector", "mjpeg"}

\* the thread that a component's start() creates
ThreadOf(what) ==
  CASE what = "buffer" -> "capture"
    [] what = "processor" -> "processor"
    [] what = "detector" -> "detector"
    [] what = "watchdog" -> "watchdog"
    [] what = "mjpeg" -> "monitor"

\* the component whose running attribute a thread's loop tests
FlagOf(t) ==
  CASE t = "capture" -> "buffer"
    [] t = "processor" -> "processor"
    [] t = "detector" -> "detector"
    [] t = "monitor" -> "mjpeg"

At(phase, i) == [phase |-> phase, i |-> i]

\* the main thread is not inside stop() and the process has not exited
MainRuns == stop_pc.phase = "none" /\ main_pc.phase # "exit"

lifeFrame ==
  UNCHANGED <<cfgVars, cmpVars, pollVars, now, ctlVars, ringVars, saveVars, fsVars,
              events, signalVars, detVars, procVars, bufVars>>

\* main(): _system = SecurityCameraSystem(), signal.signal(SIGTERM / SIGINT)
L_Register ==
  /\ MainRuns
  /\ main_pc = At("main", 0)
  /\ handlers' = TRUE
  /\ main_pc' = At("initialize", 1)
  /\ UNCHANGED <<stop_pc, running, signals, exit_code, lc_log, run_flag,
                 thread, lc_event, faults, streaming>>
  /\ lifeFrame

\* one statement of initialize(); an exception makes initialize() return
\* False and run() return 1
L_Initialize ==
  /\ MainRuns
  /\ main_pc.phase = "initialize"
  /\ LET st == InitializeSteps[main_pc.i] IN
     \E fail \in FaultChoices :
       /\ Charge(fail)
       /\ IF fail
            THEN /\ main_pc' = At("exit", 0)
                 /\ exit_code' = 1
                 /\ UNCHANGED <<lc_log, streaming>>
            ELSE /\ lc_log' = Append(lc_log, st)
                 /\ streaming' = IF st.op = "reset" THEN 0 ELSE streaming
                 /\ main_pc' = IF main_pc.i < Len(InitializeSteps)
                                 THEN At("initialize", main_pc.i + 1)
                                 ELSE At("start", 1)
                 /\ UNCHANGED exit_code
  /\ UNCHANGED <<stop_pc, running, handlers, signals, run_flag, thread, lc_event>>
  /\ lifeFrame

\* one statement of start(); an exception makes start() return False, and
\* run() then calls stop() and returns 1
L_Start ==
  /\ MainRuns
  /\ main_pc.phase = "start"
  /\ LET st == StartSteps[main_pc.i] IN
     \E fail \in FaultChoices :
       /\ Charge(fail)
       /\ IF fail
            THEN /\ main_pc' = At("final_stop", 1)
                 /\ UNCHANGED <<lc_log, run_flag, thread>>
            ELSE /\ lc_log' = Append(lc_log, st)
                 /\ run_flag' = IF st.op = "start" /\ st.what \in Flagged
                                  THEN [run_flag EXCEPT ![st.what] = TRUE]
                                  ELSE run_flag
                 /\ thread' = IF st.op = "start"
                                THEN [thread EXCEPT ![ThreadOf(st.what)] = "check"]
                                ELSE thread
                 /\ main_pc' = IF main_pc.i < Len(StartSteps)
                                 THEN At("start", main_pc.i + 1)
                                 ELSE At("started", 0)
  /\ UNCHANGED <<stop_pc, running, handlers, signals, exit_code, lc_event, streaming>>
  /\ lifeFrame

\* start(): self.running = True, return True
L_Started ==
  /\ MainRuns
  /\ main_pc = At("started", 0)
  /\ running' = TRUE
  /\ main_pc' = At("run", 0)
  /\ UNCHANGED <<stop_pc, handlers, signals, exit_code, lc_log, run_flag,
                 thread, lc_event, faults, streaming>>
  /\ lifeFrame

\* run(): while self.running: time.sleep(1.0) -- the pass that finds
\* running false leaves the loop; the passes before it change nothing
L_RunLoop ==
  /\ MainRuns
  /\ main_pc = At("run", 0)
  /\ ~running
  /\ main_pc' = At("final_stop", 0)
  /\ UNCHANGED <<stop_pc, running, handlers, signals, exit_code, lc_log,
                 run_flag, thread, lc_event, faults, streaming>>
  /\ lifeFrame

\* the head of stop(): if not self.running: return; self.running = False
EnterStop ==
  IF running
    THEN /\ running' = FALSE
         /\ stop_pc' = At("flag", 1)
    ELSE UNCHANGED <<running, stop_pc>>

\* run(): self.stop() and return, then sys.exit(exit_code) in main().
\* i is the value run() returns.
L_FinalStop ==
  /\ MainRuns
  /\ main_pc.phase = "final_stop"
  /\ EnterStop
  /\ main_pc' = At("return", main_pc.i)
  /\ UNCHANGED <<handlers, signals, exit_code, lc_log, run_flag, thread,
                 lc_event, faults, streaming>>
  /\ lifeFrame

L_Exit ==
  /\ MainRuns
  /\ main_pc.phase = "return"
  /\ exit_code' = main_pc.i
  /\ main_pc' = At("exit", 0)
  /\ UNCHANGED <<stop_pc, running, handlers, signals, lc_log, run_flag,
                 thread, lc_event, faults, streaming>>
  /\ lifeFrame

\* SIGTERM or SIGINT arrives: signal_handler runs on the main thread,
\* between two of its statements, and calls _system.stop()
L_Signal ==
  /\ handlers
  /\ main_pc.phase # "exit"
  /\ signals < MaxSignals
  /\ signals' = signals + 1
  /\ IF stop_pc.phase = "none" THEN EnterStop ELSE UNCHANGED <<running, stop_pc>>
  /\ UNCHANGED <<main_pc, handlers, exit_code, lc_log, run_flag, thread,
                 lc_event, faults, streaming>>
  /\ lifeFrame

\* a thread that cannot reach the head of its loop: the processor inside
\* wait_and_get with the motion event clear
Blocked(t) == t = "processor" /\ thread[t] = "body" /\ ~lc_event

\* the step of stop() after step i
AfterStop(i) ==
  IF i < Len(StopSteps) THEN At("flag", i + 1) ELSE At("none", 0)

\* one statement of stop(): `if self.<component>:` and the component's
\* stop(), which sets its running = False; CircularBuffer.stop goes on to
\* join the capture thread and to stop and close the camera
L_Stop ==
  /\ stop_pc.phase = "flag"
  /\ main_pc.phase # "exit"
  /\ LET st == StopSteps[stop_pc.i] IN
       IF st.what = "buffer" /\ circular_buffer = NoBuffer
         THEN /\ stop_pc' = AfterStop(stop_pc.i)
              /\ UNCHANGED <<lc_log, run_flag, buffers>>
         ELSE /\ lc_log' = Append(lc_log, st)
              /\ run_flag' = [run_flag EXCEPT ![st.what] = FALSE]
              /\ buffers' = IF st.what = "buffer"
                              THEN [buffers EXCEPT
                                      ![circular_buffer] = StoppedBuffer(@)]
                              ELSE buffers
              /\ stop_pc' = At("join", stop_pc.i)
  /\ UNCHANGED <<main_pc, running, handlers, signals, exit_code, thread,
                 lc_event, faults, streaming>>
  /\ UNCHANGED <<cfgVars, cmpVars, pollVars, now, ctlVars, ringVars, saveVars,
                 fsVars, events, signalVars, detVars, procVars,
                 circular_buffer>>

\* the component's stop() joins its thread with a timeout of 2 or 5 s: the
\* join returns when the thread has ended, or at the timeout under a thread
\* that is blocked
L_Join ==
  /\ stop_pc.phase = "join"
  /\ main_pc.phase # "exit"
  /\ LET t == ThreadOf(StopSteps[stop_pc.i].what) IN
       thread[t] \in {"unstarted", "done"} \/ Blocked(t)
  /\ stop_pc' = AfterStop(stop_pc.i)
  /\ UNCHANGED <<main_pc, running, handlers, signals, exit_code, lc_log,
                 run_flag, thread, lc_event, faults, streaming>>
  /\ lifeFrame

\* one step of the main thread
MainStep ==
  \/ L_Register \/ L_Initialize \/ L_Start \/ L_Started \/ L_RunLoop
  \/ L_FinalStop \/ L_Exit \/ L_Stop \/ L_Join

\* the head of a worker loop: `while self.running`, or `while True` in
\* watchdog_loop.  The threads are daemon threads: they end with the process.
ThreadCheck(t) ==
  /\ main_pc.phase # "exit"
  /\ thread[t] = "check"
  /\ thread' = [thread EXCEPT ![t] =
                  IF t = "watchdog" \/ run_flag[FlagOf(t)] THEN "body" ELSE "done"]

\* the body of a worker loop, back to its head
ThreadBody(t) ==
  /\ main_pc.phase # "exit"
  /\ thread[t] = "body"
  /\ thread' = [thread EXCEPT ![t] = "check"]

threadFrame ==
  /\ UNCHANGED <<main_pc, stop_pc, running, handlers, signals, exit_code,
                 lc_log, run_flag, faults, streaming>>
  /\ lifeFrame

\* _capture_pictures
T_Capture ==
  /\ ThreadCheck("capture") \/ ThreadBody("capture")
  /\ UNCHANGED lc_event
  /\ threadFrame

\* _detection_loop: an iteration may find motion and set the motion event
T_Detector ==
  /\ \/ ThreadCheck("detector") /\ UNCHANGED lc_event
     \/ ThreadBody("detector") /\ lc_event' \in {lc_event, TRUE}
  /\ threadFrame

\* _processing_loop: the body is wait_and_get, self._event.wait() without a
\* timeout, and returns only once the motion event is set
T_Processor ==
  /\ \/ ThreadCheck("processor") /\ UNCHANGED lc_event
     \/ ThreadBody("processor") /\ lc_event /\ lc_event' = FALSE
  /\ threadFrame

\* _monitor_streaming_flag
T_Monitor ==
  /\ ThreadCheck("monitor") \/ ThreadBody("monitor")
  /\ UNCHANGED lc_event
  /\ threadFrame

\* watchdog_loop
T_Watchdog ==
  /\ ThreadCheck("watchdog") \/ ThreadBody("watchdog")
  /\ UNCHANGED lc_event
  /\ threadFrame

\* the process as the workers of the other specifications see it: brought
\* up and running
InitLife ==
  /\ main_pc = At("run", 0)
  /\ stop_pc = At("none", 0)
  /\ running = TRUE
  /\ handlers = TRUE
  /\ signals = 0
  /\ exit_code = NoExit
  /\ lc_log = InitializeSteps \o StartSteps
  /\ run_flag = [c \in Flagged |-> TRUE]
  /\ thread = [t \in Threads |-> "check"]
  /\ lc_event = FALSE

\* the process at the first statement of main()
InitMain ==
  /\ main_pc = At("main", 0)
  /\ stop_pc = At("none", 0)
  /\ running = FALSE
  /\ handlers = FALSE
  /\ signals = 0
  /\ exit_code = NoExit
  /\ lc_log = <<>>
  /\ run_flag = [c \in Flagged |-> FALSE]
  /\ thread = [t \in Threads |-> "unstarted"]
  /\ lc_event = FALSE

(***************************************************************************)
(* The streaming flag, the monitor's poll and the capture thread's         *)
(* responsive sleep on a clock of milliseconds.  The calls a monitor pass  *)
(* makes are taken to cost no time, which is the most favourable case for  *)
(* the latency between a change of the flag and the change of the          *)
(* capture interval.                                                       *)
(***************************************************************************)
PollMs == 1000          \* time.sleep(1.0) at the end of a monitor pass
SleepChunkMs == 50      \* min(0.05, remaining) in the capture thread's sleep
NoChange == 0 - 1

\* PICTURE_CAPTURE_INTERVAL = 0.5 and LIVESTREAM_CAPTURE_INTERVAL = 0.1
IntervalMs(interval) ==
  IF interval = LIVESTREAM_CAPTURE_INTERVAL THEN 100 ELSE 500

Min(a, b) == IF a < b THEN a ELSE b

pollFrame ==
  UNCHANGED <<cfgVars, cmpVars, lifeVars, now, watchVars, faults, ringVars, saveVars,
              fsVars, events, signalVars, procVars, circular_buffer,
              m_pc, m_self, mjpeg_buffer, h_active, h_buffer, active_clients,
              timers, connects,
              d_pc, last_detection_time, d_buffer, d_timestamp, d_event_id>>

\* the web UI writes system_control.streaming; the instant is remembered
P_SetFlag ==
  /\ toggles < MaxToggles
  /\ toggles' = toggles + 1
  /\ streaming' = 1 - streaming
  /\ flag_at' = ms
  /\ UNCHANGED <<ms, m_wake, c_pc, c_initial, c_sleep_start, c_chunk_end>>
  /\ UNCHANGED <<buffers, d_paused, server_active, streaming_start_time,
                 server_open, server_circular_buffer>>
  /\ pollFrame

\* one pass of _monitor_streaming_flag, from get_streaming_flag to the
\* time.sleep(1.0) that ends it
P_MonitorPass ==
  /\ m_pc = "poll"
  /\ ms >= m_wake
  /\ m_wake' = ms + PollMs
  /\ IF streaming = 1 /\ ~server_active
       THEN /\ buffers' = [buffers EXCEPT ![mjpeg_buffer].capture_interval =
                                              LIVESTREAM_CAPTURE_INTERVAL]
            /\ d_paused' = IF buffers[mjpeg_buffer].motion_detector
                             THEN TRUE ELSE d_paused
            /\ server_open' = TRUE
            /\ server_circular_buffer' = mjpeg_buffer
            /\ server_active' = TRUE
            /\ streaming_start_time' = now
       ELSE IF streaming = 0 /\ server_active
         THEN /\ server_open' = FALSE
              /\ server_circular_buffer' = NoBuffer
              /\ buffers' = [buffers EXCEPT ![mjpeg_buffer].capture_interval =
                                                PICTURE_CAPTURE_INTERVAL]
              /\ d_paused' = IF buffers[mjpeg_buffer].motion_detector
                               THEN FALSE ELSE d_paused
              /\ server_active' = FALSE
              /\ streaming_start_time' = 0
         ELSE UNCHANGED <<buffers, d_paused, server_active, streaming_start_time,
                          server_open, server_circular_buffer>>
  /\ UNCHANGED <<ms, flag_at, c_pc, c_initial, c_sleep_start, c_chunk_end,
                 streaming, toggles>>
  /\ pollFrame

\* _capture_pictures: a frame is taken and the sleep begins with
\* initial_interval = self.capture_interval
P_Capture ==
  /\ c_pc = "capture"
  /\ c_initial' = buffers[circular_buffer].capture_interval
  /\ c_sleep_start' = ms
  /\ c_chunk_end' = ms
  /\ c_pc' = "sleep"
  /\ UNCHANGED <<ms, m_wake, flag_at, streaming, toggles>>
  /\ UNCHANGED <<buffers, d_paused, server_active, streaming_start_time,
                 server_open, server_circular_buffer>>
  /\ pollFrame

\* one pass of the inner loop of the responsive sleep
P_SleepCheck ==
  /\ c_pc = "sleep"
  /\ ms >= c_chunk_end
  /\ LET current_interval == buffers[circular_buffer].capture_interval
         elapsed == ms - c_sleep_start IN
       IF current_interval # c_initial \/ elapsed >= IntervalMs(current_interval)
         THEN c_pc' = "capture" /\ UNCHANGED c_chunk_end
         ELSE /\ c_chunk_end' = ms + Min(SleepChunkMs,
                                         IntervalMs(current_interval) - elapsed)
              /\ UNCHANGED c_pc
  /\ UNCHANGED <<ms, m_wake, flag_at, c_initial, c_sleep_start, streaming, toggles>>
  /\ UNCHANGED <<buffers, d_paused, server_active, streaming_start_time,
                 server_open, server_circular_buffer>>
  /\ pollFrame

\* 50 ms pass, once every thread that is due has run
P_Tick ==
  /\ ms + SleepChunkMs <= PollHorizonMs
  /\ ms < m_wake
  /\ c_pc = "sleep" /\ ms < c_chunk_end
  /\ ms' = ms + SleepChunkMs
  /\ UNCHANGED <<m_wake, flag_at, c_pc, c_initial, c_sleep_start, c_chunk_end,
                 streaming, toggles>>
  /\ UNCHANGED <<buffers, d_paused, server_active, streaming_start_time,
                 server_open, server_circular_buffer>>
  /\ pollFrame

InitPoll ==
  /\ ms = 0
  /\ m_wake = 0
  /\ flag_at = NoChange
  /\ c_pc = "capture"
  /\ c_initial = PICTURE_CAPTURE_INTERVAL
  /\ c_sleep_start = 0
  /\ c_chunk_end = 0

(***************************************************************************)
(* MotionDetector._compare_frames.  A frame is a sequence of pixels and a  *)
(* pixel a triple <<r, g, b>> of uint8 values.                             *)
(***************************************************************************)
\* frame[:, :, 1]
GreenChannel(frame) == [i \in 1..Len(frame) |-> frame[i][2]]

\* cv2.absdiff on uint8 planes
AbsDiff(g1, g2) ==
  [i \in 1..Len(g1) |-> IF g1[i] > g2[i] THEN g1[i] - g2[i] ELSE g2[i] - g1[i]]

\* np.count_nonzero of a boolean plane
RECURSIVE CountNonzero(_)
CountNonzero(mask) ==
  IF mask = <<>> THEN 0
  ELSE (IF Head(mask) THEN 1 ELSE 0) + CountNonzero(Tail(mask))

\* (variant that counts a difference equal to the threshold)
CompareFrames_Inclusive(frame1, frame2, threshold, sensitivity) ==
  LET diff == AbsDiff(GreenChannel(frame1), GreenChannel(frame2))
      changed_pixels == CountNonzero([i \in 1..Len(diff) |-> diff[i] >= threshold])
  IN  [motion_detected |-> changed_pixels > sensitivity,
       changed_pixels |-> changed_pixels]

\* _compare_frames on two RGB frames
CompareFrames(frame1, frame2, threshold, sensitivity) ==
  LET diff == AbsDiff(GreenChannel(frame1), GreenChannel(frame2))
      changed_pixels == CountNonzero([i \in 1..Len(diff) |-> diff[i] > threshold])
  IN  [motion_detected |-> changed_pixels > sensitivity,
       changed_pixels |-> changed_pixels]

NoResult == [motion_detected |-> FALSE, changed_pixels |-> 0 - 1]

\* the detection loop compares the pair of frames it was handed
RunCompare ==
  /\ f_result = NoResult
  /\ f_result' = CompareFrames(f_frame1, f_frame2, f_threshold, f_sensitivity)
  /\ UNCHANGED <<f_frame1, f_frame2, f_threshold, f_sensitivity>>
  /\ UNCHANGED <<cfgVars, lifeVars, pollVars, now, ctlVars, faults, ringVars,
                 saveVars, fsVars, daemonVars>>

\* no comparison is in progress
InitCompare ==
  /\ f_frame1 = <<>>
  /\ f_frame2 = <<>>
  /\ f_threshold = MOTION_THRESHOLD
  /\ f_sensitivity = MOTION_SENSITIVITY
  /\ f_result = NoResult

(***************************************************************************)
(* Initial states.                                                         *)
(***************************************************************************)
InitRing ==
  /\ circular = <<>>
  /\ chunk_count = 0
  /\ enc_pc = "idle"
  /\ enc_chunk = NoChunk
  /\ produced = 0
  /\ dropped = 0

InitSave ==
  /\ s_pc = "idle"
  /\ s_path = None
  /\ s_target = 0
  /\ s_timeout = 0
  /\ s_start = 0
  /\ s_pre = 0
  /\ s_post = 0
  /\ s_log = {}

\* the running daemon passed validate_config with the value of config.py
InitConfig ==
  /\ cfg_cooldown = MOTION_COOLDOWN_SECONDS
  /\ cfg_result = ValidateConfig(MOTION_COOLDOWN_SECONDS)

InitFs ==
  /\ faults = 0
  /\ h264 = <<>>
  /\ pending = {}
  /\ pictures = {}


\* the daemon after SecurityCameraSystem.start() returned: the buffer is
\* started and linked to the detector, every worker holds that buffer
InitDaemon ==
  /\ events = <<>>
  /\ streaming = 0
  /\ me_event = FALSE
  /\ me_data = NoData
  /\ me_sets = <<>>
  /\ me_got = <<>>
  /\ me_log = <<>>
  /\ d_pc = "loop"
  /\ d_paused = FALSE
  /\ last_detection_time = 0
  /\ d_buffer = 1
  /\ d_timestamp = NoData.timestamp
  /\ d_event_id = NoData.event_id
  /\ ep_pc = "loop"
  /\ ep_paused = FALSE
  /\ ep_buffer = 1
  /\ ep_data = NoData
  /\ ep_opfail = FALSE
  /\ ep_wake = 0
  /\ buffers = <<[StartedBuffer(NewBuffer) EXCEPT !.motion_detector = TRUE]>>
  /\ circular_buffer = 1
  /\ w_pc = "sleep"
  /\ w_next = BootTime
  /\ last_restart_time = 0
  /\ w_starts = <<>>
  /\ timeout_count = 0
  /\ w_outcome = "none"
  /\ m_pc = "poll"
  /\ m_self = NoBuffer
  /\ server_active = FALSE
  /\ streaming_start_time = 0
  /\ mjpeg_buffer = 1
  /\ server_open = FALSE
  /\ server_circular_buffer = NoBuffer
  /\ h_active = FALSE
  /\ h_buffer = NoBuffer
  /\ active_clients = 0
  /\ timers = {}
  /\ toggles = 0
  /\ connects = 0

(***************************************************************************)
(* Spec: the detector, the motion signal and the event processor of the    *)
(* running daemon.                                                         *)
(***************************************************************************)
Init ==
  /\ now = BootTime
  /\ InitRing
  /\ InitSave
  /\ InitConfig
  /\ InitFs
  /\ InitDaemon
  /\ InitLife
  /\ InitPoll
  /\ InitCompare

\* the capture threads run many times per Tick
CapturesCaughtUp == \A b \in 1..Len(buffers) : ~CaptureDue(b)

PipelineTick == CapturesCaughtUp /\ Tick(PipelineHorizon)

Next ==
  \/ PipelineTick
  \/ CaptureFrame
  \/ DetDetect \/ DetCaptureA \/ DetInsert \/ DetSetData \/ DetSetFlag
  \/ DetCooldown
  \/ ProcEnterWait \/ ProcWait \/ ProcGet \/ ProcClear \/ ProcRecheck
  \/ ProcPictureB \/ ProcThumbnail \/ ProcSaveVideo \/ ProcComplete

Spec == Init /\ [][Next]_vars

(***************************************************************************)
(* SpecTimed: the actions of Spec under nominal latencies.  A thread that  *)
(* is not blocked takes its next step before the clock moves: the          *)
(* processor is blocked in wait_and_get while the flag is clear, in the    *)
(* pause guard while paused and in its time.sleep(4.0); the detector is    *)
(* between two passes of its loop.                                         *)
(***************************************************************************)
ProcessorBlocked ==
  \/ ep_pc = "wait" /\ ~me_event
  \/ ep_pc = "loop" /\ ep_paused
  \/ ep_pc = "picture_b" /\ now < ep_wake

DetectorBlocked == d_pc = "loop"

TimedTick ==
  /\ CapturesCaughtUp
  /\ ProcessorBlocked
  /\ DetectorBlocked
  /\ Tick(PipelineHorizon)

NextTimed ==
  \/ TimedTick
  \/ CaptureFrame
  \/ DetDetect \/ DetCaptureA \/ DetInsert \/ DetSetData \/ DetSetFlag
  \/ DetCooldown
  \/ ProcEnterWait \/ ProcWait \/ ProcGet \/ ProcClear \/ ProcRecheck
  \/ ProcPictureB \/ ProcThumbnail \/ ProcSaveVideo \/ ProcComplete

SpecTimed == Init /\ [][NextTimed]_vars

(***************************************************************************)
(* SpecConfig: validate_config on every cooldown up to MaxCooldown.        *)
(***************************************************************************)
InitConfigSpec ==
  /\ cfg_cooldown \in 0..MaxCooldown
  /\ cfg_result = "none"
  /\ now = BootTime
  /\ InitRing
  /\ InitSave
  /\ InitFs
  /\ InitDaemon
  /\ InitLife
  /\ InitPoll
  /\ InitCompare

NextConfig == RunValidateConfig

SpecConfig == InitConfigSpec /\ [][NextConfig]_vars

(***************************************************************************)
(* SpecSave: the encoder thread and one save_event_with_continuation call  *)
(* with the default target_fill_percent.                                   *)
(***************************************************************************)
InitSaveSpec ==
  /\ now = BootTime
  /\ InitRing
  /\ InitSave
  /\ InitConfig
  /\ InitFs
  /\ InitDaemon
  /\ InitLife
  /\ InitPoll
  /\ InitCompare

\* the explored window ends at SaveHorizon, but the clock does not stop
\* under a save that is still polling
SaveTick ==
  /\ \/ now + TickSeconds <= BootTime + SaveHorizon
     \/ s_pc = "wait" /\ now - s_start < s_timeout
  /\ now' = now + TickSeconds
  /\ UNCHANGED <<cfgVars, cmpVars, lifeVars, pollVars, ctlVars, faults, ringVars, saveVars, fsVars, daemonVars>>

NextSave ==
  \/ SaveTick
  \/ EncOutputFrame \/ EncCheck \/ EncPopleft \/ EncCount \/ EncAppend
  \/ SaveOpen \/ SavePhase1 \/ SaveClear \/ SaveStartWait \/ SavePoll
  \/ SavePhase4 \/ SaveFsync \/ SaveVerify \/ SaveFinish

SpecSave == InitSaveSpec /\ [][NextSave]_vars

\* SpecSaveFair: time passes, and the thread inside the save keeps running
\* its polling loop (it sleeps 0.5 s between two passes); the encoder may
\* stop delivering chunks at any moment
SpecSaveFair ==
  SpecSave /\ WF_vars(SaveTick) /\ WF_vars(SavePoll)

(***************************************************************************)
(* SpecRecovery: the camera watchdog against the MJPEG monitor, with the   *)
(* web UI writing the streaming flag and a stream client; no motion        *)
(* occurs.                                                                 *)
(***************************************************************************)
RecoveryTick == CapturesCaughtUp /\ Tick(RecoveryHorizon)

NextRecovery ==
  \/ RecoveryTick
  \/ CaptureFrame \/ CameraStall
  \/ W_Check \/ W_PauseDetector \/ W_PauseProcessor \/ W_StopBuffer
  \/ W_DropBuffer \/ W_NewBuffer \/ W_StartBuffer \/ W_LinkDetector
  \/ W_RebindMjpeg \/ W_AttachDetector \/ W_RebindProcessor
  \/ W_ResumeDetector \/ W_ResumeProcessor \/ W_Failed
  \/ SetStreaming \/ M_Poll \/ M_StartInterval \/ M_StartPause \/ M_StartHttp
  \/ M_StopHttp \/ M_StopInterval \/ M_StopResume
  \/ ClientConnect \/ ClientDisconnect \/ TimerFire

SpecRecovery == Init /\ [][NextRecovery]_vars

(***************************************************************************)
(* SpecStall: the capture thread, the camera and the watchdog alone.  The  *)
(* watchdog thread and the capture thread keep running and time passes;    *)
(* the explored window ends at RecoveryHorizon, but the clock does not     *)
(* stop under a watchdog that sleeps towards a pass that will find a       *)
(* stall it may recover from.                                              *)
(***************************************************************************)
RecoveryDue ==
  /\ w_pc = "sleep"
  /\ circular_buffer # NoBuffer
  /\ StallDetected(circular_buffer, now)
  /\ ~RestartSuppressed(last_restart_time, now)

StallTick ==
  /\ CapturesCaughtUp
  /\ \/ now + TickSeconds <= BootTime + StallHorizon
     \/ RecoveryDue /\ now < w_next
  /\ now' = now + TickSeconds
  /\ UNCHANGED <<cfgVars, cmpVars, lifeVars, pollVars, ctlVars, faults, ringVars, saveVars, fsVars, daemonVars>>

WatchdogStep ==
  \/ W_Check \/ W_PauseDetector \/ W_PauseProcessor \/ W_StopBuffer
  \/ W_DropBuffer \/ W_NewBuffer \/ W_StartBuffer \/ W_LinkDetector
  \/ W_RebindMjpeg \/ W_AttachDetector \/ W_RebindProcessor
  \/ W_ResumeDetector \/ W_ResumeProcessor \/ W_Failed

NextStall ==
  \/ StallTick
  \/ CaptureFrame \/ CameraStall
  \/ WatchdogStep

SpecStall ==
  /\ Init /\ [][NextStall]_vars
  /\ WF_vars(StallTick) /\ WF_vars(CaptureFrame) /\ WF_vars(WatchdogStep)

(***************************************************************************)
(* SpecLife: bring-up, run and teardown of the process, with its signals   *)
(* and the loops of its worker threads.                                    *)
(***************************************************************************)
InitLifeSpec ==
  /\ now = BootTime
  /\ InitRing
  /\ InitSave
  /\ InitConfig
  /\ InitFs
  /\ InitDaemon
  /\ InitMain
  /\ InitPoll
  /\ InitCompare

NextLife ==
  \/ MainStep
  \/ L_Signal
  \/ T_Capture \/ T_Detector \/ T_Processor \/ T_Monitor \/ T_Watchdog

SpecLife == InitLifeSpec /\ [][NextLife]_vars

\* every thread of the process is scheduled
SpecLifeFair ==
  /\ SpecLife
  /\ WF_vars(MainStep)
  /\ WF_vars(T_Capture) /\ WF_vars(T_Detector) /\ WF_vars(T_Processor)
  /\ WF_vars(T_Monitor) /\ WF_vars(T_Watchdog)

(***************************************************************************)
(* SpecPoll: the streaming flag, the monitor and the capture thread on the *)
(* millisecond clock.                                                      *)
(***************************************************************************)
NextPoll ==
  \/ P_Tick
  \/ P_SetFlag
  \/ P_MonitorPass
  \/ P_Capture \/ P_SleepCheck

SpecPoll == Init /\ [][NextPoll]_vars

(***************************************************************************)
(* SpecCompare: _compare_frames on every pair of small frames.             *)
(***************************************************************************)
\* pixels whose green values differ by 0, 1, 60 and 61
Pixels == {0, 255} \X {0, 60, 61} \X {0}

Frames == [1..FramePixels -> Pixels]

InitCompareSpec ==
  /\ f_frame1 \in Frames
  /\ f_frame2 \in Frames
  /\ f_threshold \in {0, MOTION_THRESHOLD}
  /\ f_sensitivity \in {0, 1}
  /\ f_result = NoResult
  /\ now = BootTime
  /\ InitRing
  /\ InitSave
  /\ InitConfig
  /\ InitFs
  /\ InitDaemon
  /\ InitLife
  /\ InitPoll

NextCompare == RunCompare

SpecCompare == InitCompareSpec /\ [][NextCompare]_vars

(***************************************************************************)
(* SpecStream: the MJPEG monitor, the HTTP server, its clients and the     *)
(* auto-stop timers, without the watchdog.                                 *)
(***************************************************************************)
StreamTick == Tick(StreamHorizon)

\* a session that nobody stops: the monitor polls once a second and finds
\* nothing to do until the elapsed time reaches the cap
StreamIdle ==
  /\ m_pc = "poll"
  /\ streaming = 1 /\ server_active
  /\ timers = {}
  /\ now < streaming_start_time + STREAMING_TIMEOUT
  /\ now' = streaming_start_time + STREAMING_TIMEOUT
  /\ UNCHANGED <<cfgVars, cmpVars, lifeVars, pollVars, ctlVars, faults, ringVars, saveVars, fsVars, daemonVars>>

\* one step of the monitor thread
MonitorStep ==
  \/ M_Poll \/ M_PollTimeout \/ M_TimeoutFlag
  \/ M_StartInterval \/ M_StartPause \/ M_StartHttp
  \/ M_StopHttp \/ M_StopInterval \/ M_StopResume

NextStream ==
  \/ StreamTick \/ StreamIdle
  \/ SetStreaming
  \/ MonitorStep
  \/ ClientConnect \/ ClientDisconnect \/ TimerFire

SpecStream == Init /\ [][NextStream]_vars

\* the monitor is a running thread: a step it can take is taken
SpecStreamFair == SpecStream /\ WF_vars(MonitorStep)

(***************************************************************************)
(* SpecStorm: the capture thread, the camera and the watchdog over a       *)
(* window longer than the restart suppression.                             *)
(***************************************************************************)
StormTick == CapturesCaughtUp /\ Tick(StormHorizon)

NextStorm ==
  \/ StormTick
  \/ CaptureFrame \/ CameraStall
  \/ WatchdogStep

SpecStorm == Init /\ [][NextStorm]_vars

(***************************************************************************)
(* SpecWatchdog: the camera watchdog against the detector and the          *)
(* processor; the streaming flag stays 0.                                  *)
(***************************************************************************)
WatchdogTick == CapturesCaughtUp /\ Tick(WatchdogHorizon)

NextWatchdog ==
  \/ WatchdogTick
  \/ CaptureFrame \/ CameraStall
  \/ DetDetect \/ DetCaptureA \/ DetInsert \/ DetSetData \/ DetSetFlag
  \/ DetCooldown
  \/ ProcEnterWait \/ ProcWait \/ ProcGet \/ ProcClear \/ ProcRecheck
  \/ ProcPictureB \/ ProcThumbnail \/ ProcSaveVideo \/ ProcComplete
  \/ W_Check \/ W_PauseDetector \/ W_PauseProcessor \/ W_StopBuffer
  \/ W_DropBuffer \/ W_NewBuffer \/ W_StartBuffer \/ W_LinkDetector
  \/ W_RebindMjpeg \/ W_AttachDetector \/ W_RebindProcessor
  \/ W_ResumeDetector \/ W_ResumeProcessor \/ W_Failed

SpecWatchdog == Init /\ [][NextWatchdog]_vars

(***************************************************************************)
(* Properties.                                                             *)
(***************************************************************************)
Range(seq) == {seq[i] : i \in 1..Len(seq)}

Last(seq) == seq[Len(seq)]

\* the row of event id was completed as the processing of a motion event
\* is meant to leave it
RowCompleted(id, timestamp) ==
  /\ id \in 1..Len(events)
  /\ events[id].image_b_path = PicturePath(Strftime(timestamp), "_b.jpg")
  /\ events[id].thumbnail_path = ThumbPath(Strftime(timestamp))
  /\ events[id].video_path # None
  /\ events[id].duration_seconds # DefaultDuration
  /\ ReplaceMp4(VideoPathMp4(Strftime(timestamp))) \in pending

\* C1: when the processor has finished a signal it consumed and no
\* operation failed, the row of the event carries image_b_path,
\* thumbnail_path, video_path and an estimated duration_seconds, and the
\* .h264.pending marker of the video exists.
C1_RowCompletedAfterProcessing ==
  (ep_pc = "complete" /\ ~ep_opfail /\ faults = 0)
    => RowCompleted(ep_data.event_id, ep_data.timestamp)

\* C3: wait_and_get consumes atomically: once the flag is clear and the
\* detector is not inside set(), the payload of the latest set() has been
\* returned, and no payload is returned twice.
C3_NoSignalLost ==
  /\ (~me_event /\ d_pc # "set_flag" /\ me_sets # <<>>)
       => Last(me_sets).id \in Range(me_got) \cup
                                (IF ep_pc = "clear" THEN {ep_data.event_id} ELSE {})
  /\ \A i, j \in 1..Len(me_got) : me_got[i] = me_got[j] => i = j

\* C4: successive MotionEvent.set calls are at least cooldown_seconds
\* apart, event rows are at least cooldown_seconds apart, and every row
\* has exactly one signal (the last row may still be on its way to set()).
C4_CooldownBetweenSignals ==
  /\ \A i \in 1..(Len(me_sets) - 1) :
       me_sets[i + 1].at - me_sets[i].at >= MOTION_COOLDOWN_SECONDS
  /\ \A i \in 1..(Len(events) - 1) :
       events[i + 1].timestamp[2] - events[i].timestamp[2]
         >= MOTION_COOLDOWN_SECONDS
  /\ Len(events) = Len(me_sets) + (IF d_pc = "set_data" THEN 1 ELSE 0)

C4_Witness ==
  /\ Len(me_sets) = 2
  /\ Len(events) = 2
  /\ me_sets[2].at - me_sets[1].at >= MOTION_COOLDOWN_SECONDS

\* a payload (event_id, timestamp) names a committed row with that id and
\* that timestamp
NamesRow(data) ==
  /\ data.event_id \in 1..Len(events)
  /\ events[data.event_id].timestamp = adapt_datetime(data.timestamp)

\* C5: every payload the processor received, and every payload in the
\* slot, names a committed row with that id and timestamp; the detector
\* never sets an id that add_new_event did not return from an insert.
C5_SignalNamesRow ==
  /\ ep_data # NoData => NamesRow(ep_data)
  /\ me_data # NoData => NamesRow(me_data)
  /\ \A i \in 1..Len(me_sets) : me_sets[i].id \in 1..Len(events)
  /\ d_pc \in {"set_data", "set_flag"}
       => NamesRow([event_id |-> d_event_id, timestamp |-> d_timestamp])

C5_Witness ==
  /\ ep_pc = "picture_b"
  /\ ep_data # NoData
  /\ NamesRow(ep_data)
  /\ faults = 1

\* the steps of _perform_full_recovery after both pause calls and before
\* the last rebind has been made
RebindSteps ==
  {"stop_buffer", "drop_buffer", "new_buffer", "start_buffer",
   "link_detector", "rebind_mjpeg", "attach_detector", "rebind_processor"}

\* C6: once a recovery has completed, the detector, the processor, the
\* MJPEG server, its HTTP server object and the active handler all
\* reference the new buffer.
C6_AllRebound ==
  (w_pc = "sleep" /\ w_outcome = "complete")
    => /\ d_buffer = circular_buffer
       /\ ep_buffer = circular_buffer
       /\ mjpeg_buffer = circular_buffer
       /\ server_open => server_circular_buffer = circular_buffer
       /\ h_active => h_buffer = circular_buffer

\* C7: between the pause step of a recovery and the completion of the
\* rebind, the detector and the processor both stay paused, whatever the
\* MJPEG monitor does meanwhile.
C7_PausedDuringRecovery ==
  w_pc \in RebindSteps => (d_paused /\ ep_paused)

\* C8: at the moment the watchdog stops the buffer the detector is not in
\* the step of its motion handling that uses the buffer (the picture-A
\* capture) and the processor is not in the picture-B capture or the
\* video save.
C8_StopOnlyWhenIdle ==
  [][(w_pc = "stop_buffer" /\ w_pc' = "drop_buffer")
       => /\ d_pc # "capture_a"
          /\ ep_pc \notin {"picture_b", "save_video", "in_save"}]_vars

\* C9: while the monitor holds the stream on, the buffer in use captures
\* at the livestream interval and the detector is paused; while it holds
\* the stream off, the buffer captures at the normal interval and the
\* detector runs; recoveries in between do not change that.
C9_StreamingMode ==
  (w_pc = "sleep" /\ w_outcome # "failed" /\ m_pc = "poll")
    => IF server_active
         THEN /\ buffers[circular_buffer].capture_interval
                   = LIVESTREAM_CAPTURE_INTERVAL
              /\ d_paused
         ELSE /\ buffers[circular_buffer].capture_interval
                   = PICTURE_CAPTURE_INTERVAL
              /\ ~d_paused

\* C11: both frame slots start empty; after n pushes current is the n-th
\* frame and previous the (n-1)-th (empty while there is none); the
\* detection read returns no pair whenever a slot is empty.
C11_FramePairRotation ==
  \A b \in 1..Len(buffers) :
    LET buf == buffers[b]
        n == buf.frame_count IN
      /\ buf.current_frame = (IF n >= 1 THEN n ELSE NoFrame)
      /\ buf.previous_frame = (IF n >= 2 THEN n - 1 ELSE NoFrame)
      /\ (buf.previous_frame = NoFrame \/ buf.current_frame = NoFrame)
           => GetFramesForDetection(buf) = <<NoFrame, NoFrame>>
      /\ n >= 2 => GetFramesForDetection(buf) = <<n - 1, n>>

C11_Witness ==
  /\ buffers[1].frame_count = 3
  /\ buffers[1].current_frame = 3
  /\ buffers[1].previous_frame = 2

\* C10: the ring never holds more than max_chunks chunks, and the eviction
\* counter counts exactly the chunks dropped for overflow (one popleft is
\* counted by the statement that follows it).
C10_RingBounded ==
  /\ Len(circular) <= CIRCULAR_BUFFER_MAX_CHUNKS
  /\ chunk_count + (IF enc_pc = "count" THEN 1 ELSE 0) = dropped

C10_Witness ==
  /\ chunk_count >= 1
  /\ Len(circular) = CIRCULAR_BUFFER_MAX_CHUNKS
  /\ s_pc = "done"
  /\ "returned" \in s_log

\* what one dump loop appended to the file in a step
Appended == SubSeq(h264'[s_path].data, Len(h264[s_path].data) + 1,
                   Len(h264'[s_path].data))

\* seg is snapshot without a leading run of non-keyframes that ends just
\* before the snapshot's first keyframe (or covers a snapshot without one)
KeyframeAligned(snapshot, seg) ==
  \E k \in 0..Len(snapshot) :
    /\ \A j \in 1..k : ~snapshot[j].key
    /\ seg = SubSeq(snapshot, k + 1, Len(snapshot))
    /\ seg # <<>> => seg[1].key

\* C12: each dump (phase 1 and phase 4) skips the chunks of its snapshot
\* that precede the first keyframe and writes all the others in ring order,
\* so a non-empty dumped segment begins with a keyframe.
C12_KeyframeAlignment ==
  [][/\ (s_pc = "phase1" /\ s_pc' = "clear")
          => KeyframeAligned(circular, Appended)
     /\ (s_pc = "phase4" /\ s_pc' = "fsync")
          => KeyframeAligned(circular, Appended)]_vars

\* a finished save whose two segments both begin with a keyframe, the first
\* one after a skipped chunk
C12_Witness ==
  /\ s_pc = "done"
  /\ s_pre >= 1
  /\ s_post >= 1
  /\ h264[s_path].data[1].key
  /\ h264[s_path].data[1].id >= 2
  /\ h264[s_path].data[s_pre + 1].key
  /\ "returned" \in s_log

\* C13: the refill wait always ends.  It is left for phase 4, never with an
\* error: without a warning only when the ring holds target_chunks =
\* floor(max_chunks * target_fill_percent) chunks, with the timeout warning
\* exactly when timeout_seconds have passed, and the ring itself is left as
\* it is for the post-dump.
C13_RefillWaitEnds ==
  /\ (s_pc = "wait") ~> (s_pc = "phase4")
  /\ [][s_pc = "wait" /\ s_pc' # "wait"
          => /\ s_pc' = "phase4"
             /\ s_target = TargetChunks(TargetFillPercent)
             /\ circular' = circular
             /\ "timeout" \in s_log' <=> now - s_start >= s_timeout
             /\ "timeout" \notin s_log' => Len(circular) >= s_target]_vars

\* the wait ended at the timeout with fewer chunks than the target, and the
\* save went on to return
C13_Witness ==
  /\ s_pc = "done"
  /\ "timeout" \in s_log
  /\ "returned" \in s_log
  /\ s_post < s_target

C15_NoKeyframeIsWarningOnly ==
  [][(s_pc = "verify" /\ s_pc' # "verify" /\ s_path \in DOMAIN h264
        /\ s_log \cap {"no_keyframe_pre", "no_keyframe_post"} # {})
       => s_pc' = "returned" /\ h264' = h264]_vars

ProcessorIdle == ep_pc \in {"loop", "wait"}

WorstCaseLatency == PictureBDelay + DefaultTimeoutSeconds

\* C18: validate_config rejects every configuration whose cooldown does
\* not exceed the worst-case latency of the event processor, so a
\* configuration it accepts has cooldown > picture-B delay + refill timeout.
C18_ShortCooldownRejected ==
  cfg_result = "returned" => cfg_cooldown > WorstCaseLatency

\* C19: a set() that finds the flag of an earlier signal still raised
\* leaves only the new payload in the slot and logs a warning about the
\* overwrite.
C19_OverwriteWarns ==
  [][(d_pc = "set_flag" /\ d_pc' = "cooldown" /\ me_event)
       => /\ me_data' = [event_id |-> d_event_id, timestamp |-> d_timestamp]
          /\ \E i \in (Len(me_log) + 1)..Len(me_log') :
               me_log'[i].level = "WARNING"]_vars

\* the buffer the watchdog reads delivers no frames: its last frame is
\* older than 10 s or its capture thread is not alive
CaptureSilent ==
  /\ circular_buffer # NoBuffer
  /\ \/ now - buffers[circular_buffer].last_frame_time > StallSeconds
     \/ buffers[circular_buffer].thread # "alive"

\* no recovery started within the previous 60 s
NoRecentRecovery == now - last_restart_time >= RestartSuppressSeconds

\* one pass of the watchdog loop happens in this step
WatchdogPass ==
  /\ w_pc = "sleep"
  /\ w_pc' # "sleep" \/ w_next' # w_next

\* C20: a pass of the watchdog that finds the capture silent and no
\* recovery started in the last 60 s starts a full recovery (and no other
\* pass does); the watchdog cannot sleep forever on such a state; and
\* after a recovery that completed the new buffer stamps frames again
\* unless its camera stalls anew.
C20_StallLeadsToRecovery ==
  /\ [][WatchdogPass =>
          (w_pc' = "pause_detector" /\ last_restart_time' = now)
            <=> (CaptureSilent /\ NoRecentRecovery)]_vars
  /\ (w_pc = "sleep" /\ CaptureSilent /\ NoRecentRecovery)
       ~> (w_pc = "pause_detector"
             \/ ~(CaptureSilent /\ NoRecentRecovery))
  /\ (w_pc = "sleep" /\ w_outcome = "complete")
       ~> (\/ circular_buffer # NoBuffer
              /\ buffers[circular_buffer].last_frame_time >= last_restart_time
           \/ circular_buffer # NoBuffer
              /\ buffers[circular_buffer].camera = "stalled"
           \/ w_pc # "sleep")

\* the camera stalled after delivering frames, the watchdog recovered more
\* than 10 s after the last frame, and the new buffer has stamped a frame
C20_Witness ==
  /\ w_pc = "sleep"
  /\ w_outcome = "complete"
  /\ Len(buffers) = 2
  /\ circular_buffer = 2
  /\ buffers[1].frame_count >= 1
  /\ last_restart_time - buffers[1].last_frame_time > StallSeconds
  /\ buffers[2].frame_count >= 1
  /\ buffers[2].last_frame_time >= last_restart_time

\* C21: two calls of _perform_full_recovery are never less than 60 s
\* apart, and a pass of the watchdog that finds the capture silent within
\* 60 s of the previous start changes neither the buffer nor any worker's
\* buffer reference or pause flag.
C21_NoRestartStorm ==
  /\ [](\A i \in 1..(Len(w_starts) - 1) :
          w_starts[i + 1] - w_starts[i] >= RestartSuppressSeconds)
  /\ [][(WatchdogPass /\ CaptureSilent /\ ~NoRecentRecovery)
          => /\ w_pc' = "sleep"
             /\ w_starts' = w_starts
             /\ buffers' = buffers
             /\ circular_buffer' = circular_buffer
             /\ d_buffer' = d_buffer
             /\ ep_buffer' = ep_buffer
             /\ mjpeg_buffer' = mjpeg_buffer
             /\ d_paused' = d_paused
             /\ ep_paused' = ep_paused]_vars

\* a second recovery has started, after a timeout in between was suppressed
C21_Witness ==
  /\ Len(w_starts) = 2
  /\ timeout_count >= 3
  /\ w_pc = "pause_detector"

\* the timer's check has run in this step
CheckRan == \E due \in timers : timers' = timers \ {due}

CapReached ==
  /\ server_active
  /\ streaming_start_time # 0
  /\ now - streaming_start_time >= STREAMING_TIMEOUT

\* the monitor has closed the session: the server reference is dropped,
\* the buffer captures at the normal interval and the detector runs
SessionClosed ==
  /\ ~server_active
  /\ server_circular_buffer = NoBuffer
  /\ buffers[mjpeg_buffer].capture_interval = PICTURE_CAPTURE_INTERVAL
  /\ ~d_paused

TornDown ==
  /\ ~running
  /\ stop_pc.phase = "none"
  /\ \E i \in 1..Len(lc_log) : lc_log[i] = Step("stop", "buffer")

\* C24: once shutdown has cleared the running flags, every worker thread
\* (capture worker, motion detector, event processor, MJPEG monitor,
\* watchdog) reaches the end of its loop, a processor that waits for a
\* motion signal included.
C24_WorkersTerminate ==
  TornDown ~> (\A t \in Threads : thread[t] \in {"unstarted", "done"})

\* the components on which the log records the call op, in call order
Called(op) ==
  LET sel == SelectSeq(lc_log, LAMBDA e : e.op = op)
  IN  [i \in 1..Len(sel) |-> sel[i].what]

Reverse(seq) == [i \in 1..Len(seq) |-> seq[Len(seq) + 1 - i]]

\* C25: bring-up starts buffer, event processor, motion detector, watchdog
\* and MJPEG server in that order, and a completed teardown has stopped the
\* same components in exactly the reverse order.
C25_ReverseTeardown ==
  TornDown =>
    /\ Called("start") = <<"buffer", "processor", "detector", "watchdog", "mjpeg">>
    /\ Called("stop") = Reverse(Called("start"))

\* the position of a call in the log, 0 when it has not been made
Pos(op, what) ==
  IF \E i \in 1..Len(lc_log) : lc_log[i] = Step(op, what)
    THEN CHOOSE i \in 1..Len(lc_log) : lc_log[i] = Step(op, what)
    ELSE 0

\* once the second call has been made, the first was made before it
Before(a, b) == Pos(b.op, b.what) # 0 =>
                  (Pos(a.op, a.what) # 0 /\ Pos(a.op, a.what) < Pos(b.op, b.what))

\* what both readings of the bring-up order share: the flag reset precedes
\* the monitor, the processor precedes the detector, the watchdog follows
\* the detector and the MJPEG server comes last
BringUpOrder ==
  /\ Before(Step("reset", "streaming"), Step("start", "mjpeg"))
  /\ Before(Step("start", "processor"), Step("start", "detector"))
  /\ Before(Step("start", "detector"), Step("start", "watchdog"))
  /\ \A c \in {"buffer", "processor", "detector", "watchdog"} :
       Before(Step("start", c), Step("start", "mjpeg"))

C27_SignalStopsProcess ==
  /\ [](exit_code \in {NoExit, 0, 1})
  /\ [](exit_code = 1 => faults > 0)
  /\ ((signals > 0) ~> (main_pc.phase = "exit"))

\* C28: a store call that meets an sqlite3 failure returns to its caller
\* with a sentinel and the worker goes on: the detector, after a failed
\* event creation, continues _handle_motion_event with the returned id,
\* and the processor, after a failed picture-B update, continues with the
\* thumbnail.
C28_StoreCallsReturn ==
  /\ [][(d_pc = "insert" /\ faults' > faults) => d_pc' = "set_data"]_vars
  /\ [][(ep_pc = "picture_b" /\ faults' > faults /\ pictures' # pictures)
          => ep_pc' = "thumbnail"]_vars

\* the capture interval that goes with the value of the streaming flag
IntervalFor(flag) ==
  IF flag = 1 THEN LIVESTREAM_CAPTURE_INTERVAL ELSE PICTURE_CAPTURE_INTERVAL

\* C29: 100 ms after a change of the streaming flag the buffer's capture
\* interval is the one that goes with the new value (livestream for 1,
\* normal for 0), and a capture thread that sleeps under an interval that
\* has changed ends its sleep within one 50 ms chunk.
C29_IntervalFollowsFlag ==
  /\ [](flag_at # NoChange /\ ms - flag_at >= 100
          => buffers[circular_buffer].capture_interval = IntervalFor(streaming))
  /\ [](c_pc = "sleep" /\ buffers[circular_buffer].capture_interval # c_initial
          => c_chunk_end - ms <= SleepChunkMs)

\* the pixel positions whose green values differ by more than the threshold
ChangedPositions ==
  {i \in 1..FramePixels :
     LET a == f_frame1[i][2]
         b == f_frame2[i][2] IN
       a - b > f_threshold \/ b - a > f_threshold}

\* C30: for two frames of equal size the reported changed_pixels is the
\* number of pixel positions whose green-channel absolute difference is
\* strictly greater than the threshold, motion is declared exactly when
\* changed_pixels is strictly greater than the sensitivity, and identical
\* frames never declare motion.
C30_CompareFrames ==
  f_result # NoResult =>
    /\ f_result.changed_pixels = Cardinality(ChangedPositions)
    /\ f_result.motion_detected <=> (f_result.changed_pixels > f_sensitivity)
    /\ (f_frame1 = f_frame2 => ~f_result.motion_detected)

\* a comparison in which one pixel differs by exactly the threshold and
\* another by more, and the count decides for motion
C30_Witness ==
  /\ f_result # NoResult
  /\ f_threshold = MOTION_THRESHOLD
  /\ \E i \in 1..FramePixels : f_frame1[i][2] - f_frame2[i][2] = f_threshold
  /\ f_result.changed_pixels = 1
  /\ f_sensitivity = 0
  /\ f_result.motion_detected

\* the motion handler has been left through its except clause in this step
HandlerAborted == d_pc \in {"capture_a", "insert"} /\ d_pc' = "loop"

\* C31: the handler of a detected motion runs still-A capture, row insert,
\* MotionEvent.set and cooldown start in that order; when the still capture
\* or the insert fails, the signal is not set, last_detection_time is not
\* touched, and the detector is as free to detect on its next iteration as
\* it was before.
C31_HandlerOrderAndAbort ==
  /\ [][(d_pc' = "capture_a" /\ d_pc # "capture_a") => d_pc = "loop"]_vars
  /\ [][(d_pc' = "insert" /\ d_pc # "insert") => d_pc = "capture_a"]_vars
  /\ [][(d_pc' = "set_data" /\ d_pc # "set_data") => d_pc = "insert"]_vars
  /\ [][(me_sets' # me_sets \/ (me_event' /\ ~me_event))
          => d_pc \in {"set_data", "set_flag"}]_vars
  /\ [][(d_pc' = "cooldown" /\ d_pc # "cooldown") => d_pc = "set_flag"]_vars
  /\ [][last_detection_time' # last_detection_time => d_pc = "cooldown"]_vars
  /\ [][HandlerAborted
          => /\ me_sets' = me_sets
             /\ me_event' = me_event
             /\ last_detection_time' = last_detection_time
             /\ ~InCooldown(last_detection_time', now')]_vars

\* picture A was written, the insert failed, and nothing was signalled or
\* stamped
C31_Witness ==
  /\ d_pc = "loop"
  /\ faults = 1
  /\ pictures # {}
  /\ events = <<>>
  /\ me_sets = <<>>
  /\ last_detection_time = 0

\* the buffer the watchdog reads has a live capture thread and was started
\* less than 10 s ago: the first buffer at bring-up, a later one inside the
\* recovery that began at last_restart_time
RecentlyStarted ==
  /\ circular_buffer # NoBuffer
  /\ buffers[circular_buffer].thread = "alive"
  /\ (IF circular_buffer = 1 THEN now - BootTime ELSE now - last_restart_time)
       < StallSeconds

\* C32: the watchdog starts no full recovery of a buffer whose capture
\* thread is alive and was started less than 10 s ago, and a pass that runs
\* before that thread has stamped its first frame counts no timeout.
C32_NoRecoveryOfFreshBuffer ==
  /\ [][w_starts' # w_starts => ~RecentlyStarted]_vars
  /\ [][(WatchdogPass /\ RecentlyStarted
           /\ buffers[circular_buffer].frame_count = 0)
          => timeout_count' = timeout_count]_vars

(***************************************************************************)
(* SpecTeardown: the running daemon under SIGTERM / SIGINT, with the       *)
(* capture thread, the watchdog and the worker loops.  The watchdog and    *)
(* the capture thread are daemon threads and end with the process.         *)
(***************************************************************************)
ProcessAlive == main_pc.phase # "exit"

TeardownCapture == ProcessAlive /\ CaptureFrame

TeardownWatchdog == ProcessAlive /\ WatchdogStep

NextTeardown ==
  \/ StallTick
  \/ TeardownCapture
  \/ TeardownWatchdog
  \/ L_Signal \/ L_RunLoop \/ L_FinalStop \/ L_Exit \/ L_Stop \/ L_Join
  \/ T_Capture \/ T_Detector \/ T_Processor \/ T_Monitor

SpecTeardown == Init /\ [][NextTeardown]_vars

\* a buffer's capture thread and camera come up in this step
BufferComesUp ==
  \E b \in 1..Len(buffers') :
    /\ buffers'[b].thread = "alive"
    /\ b > Len(buffers) \/ buffers[b].thread # "alive"

\* stop() has set running = False and has returned
StopReturned == ~running /\ stop_pc.phase = "none"

\* C33: once stop() has set running = False the watchdog starts no full
\* recovery, and after stop() has stopped the components no camera or
\* capture thread is started and no paused worker is resumed.
C33_NoRecoveryAfterShutdown ==
  /\ [][~running => w_starts' = w_starts]_vars
  /\ [][StopReturned => ~BufferComesUp]_vars
  /\ [][StopReturned => /\ d_paused => d_paused'
                        /\ ep_paused => ep_paused']_vars

\* the timer due at `due` runs _check_and_stop_streaming in this step and
\* the check finds no client, so it writes streaming = 0
TimerStops(due) ==
  /\ due \in timers
  /\ timers' = timers \ {due}
  /\ active_clients = 0
  /\ streaming' = 0

\* a client disconnected after time t: its own timer is still pending
DisconnectAfter(t) == \E later \in timers : later - StopTimerSeconds > t

\* C34: the auto-stop check writes streaming = 0 only when no client was
\* connected since its timer was scheduled, and never when a client
\* reconnected and disconnected again less than 5 s before it fires.
C34_TimerSeesContinuousZero ==
  /\ [][\A due \in timers :
          TimerStops(due) => ~DisconnectAfter(due - StopTimerSeconds)]_vars
  /\ [][\A due \in timers :
          TimerStops(due) => ~DisconnectAfter(now - StopTimerSeconds)]_vars

\* the ids of the chunks in the output file of the save in progress
WrittenIds ==
  IF s_path \in DOMAIN h264
    THEN {h264[s_path].data[i].id : i \in 1..Len(h264[s_path].data)}
    ELSE {}

\* the Phase-2 clear happens in this step
ClearStep == s_pc = "clear" /\ s_pc' = "start_wait"

\* the chunks the encoder appended after the Phase-1 snapshot, which ended
\* with the last chunk Phase 1 wrote
AppendedSincePhase1 ==
  {i \in 1..Len(circular) :
     circular[i].id > h264[s_path].data[Len(h264[s_path].data)].id}

\* C35: no chunk is written to the file twice, and a chunk appended after
\* the Phase-1 snapshot is not removed by the Phase-2 clear before it was
\* written.
C35_NoChunkLostOrRepeated ==
  /\ [](s_path \in DOMAIN h264 =>
          Cardinality(WrittenIds) = Len(h264[s_path].data))
  /\ [][(ClearStep /\ s_pre > 0)
          => \A i \in AppendedSincePhase1 : circular[i].id \in WrittenIds]_vars

\* the processor leaves the pause guard that follows wait_and_get
LeavesRecheck == ep_pc = "recheck" /\ ep_pc' # "recheck"

\* C36: a signal that wait_and_get returned to the processor goes on into
\* _process_event with its event_id; it is not discarded, whether or not the
\* watchdog paused the processor while it was blocked in the wait.
C36_ConsumedSignalProcessed ==
  [][LeavesRecheck => /\ ep_pc' = "picture_b"
                      /\ ep_data' = ep_data
                      /\ ep_data.event_id = Last(me_got)]_vars

(***************************************************************************)
(* SpecRetry: the capture thread, the camera and the watchdog after a      *)
(* recovery that failed.  The watchdog thread and the capture thread keep  *)
(* running and time passes; the explored window ends at StallHorizon, but  *)
(* the clock does not stop while a failed recovery waits for its retry.    *)
(***************************************************************************)
\* the last recovery failed and the loop is back in its sleep
FailedAndIdle == w_pc = "sleep" /\ w_outcome = "failed"

RetryPending ==
  /\ FailedAndIdle
  /\ Len(buffers) < MaxBuffers
  /\ circular_buffer # NoBuffer
  /\ StallDetected(circular_buffer, now)

RetryTick ==
  /\ CapturesCaughtUp
  /\ \/ now + TickSeconds <= BootTime + StallHorizon
     \/ RetryPending /\ (RestartSuppressed(last_restart_time, now) \/ now < w_next)
  /\ now' = now + TickSeconds
  /\ UNCHANGED <<cfgVars, cmpVars, lifeVars, pollVars, ctlVars, faults, ringVars, saveVars, fsVars, daemonVars>>

NextRetry ==
  \/ RetryTick
  \/ CaptureFrame \/ CameraStall
  \/ WatchdogStep

SpecRetry ==
  /\ Init /\ [][NextRetry]_vars
  /\ WF_vars(RetryTick) /\ WF_vars(CaptureFrame) /\ WF_vars(WatchdogStep)

\* the handler of _perform_full_recovery returns in this step
RecoveryFails == w_pc = "failed" /\ w_pc' # "failed"

\* the watchdog alone retries a failed recovery: once the suppression
\* window has passed the loop starts a new one, no earlier than 60 s after
\* the failed one (a property of SpecRetry)
RetryAfterFailure ==
  /\ [][(FailedAndIdle /\ w_pc' = "pause_detector")
          => now - last_restart_time >= RestartSuppressSeconds]_vars
  /\ (FailedAndIdle /\ Len(buffers) < MaxBuffers)
       ~> (w_pc = "pause_detector" /\ Len(w_starts) >= 2)

\* C37: a recovery that fails leaves the detector and the processor paused
\* and the watchdog loop in its sleep, and while the failed recovery stands
\* the two workers stay paused and are not resumed against the dead buffer.
C37_FailedRecoveryStaysPaused ==
  /\ [][RecoveryFails => /\ w_pc' = "sleep"
                         /\ w_next' = now + WatchdogSleepSeconds
                         /\ d_paused' /\ ep_paused']_vars
  /\ [](FailedAndIdle => /\ d_paused /\ ep_paused
                         /\ circular_buffer # NoBuffer
                         /\ ~Capturing(circular_buffer))
\* run() is returning 1 after start() returned False
FailedStartReturns == main_pc = At("return", 1)

\* C38: when run() returns 1 after a failed start(), every component that
\* start() had started is stopped: no running flag is set and no worker
\* thread is in its loop.
C38_FailedStartTornDown ==
  FailedStartReturns =>
    /\ \A c \in Flagged : ~run_flag[c]
    /\ \A t \in Threads : thread[t] \in {"unstarted", "done"}

\* the monitor is between two passes with server_active set: stream mode is
\* entered (the detector was paused, the capture rate raised)
MonitorOn == m_pc = "poll" /\ server_active

\* C39: whenever the monitor is in its on state an HTTP server is listening
\* on the stream port.
C39_OnStateHasServer == MonitorOn => server_open

\* the stream handlers that have called client_connected and have not yet
\* called client_disconnected (HTTPServer serves one request at a time)
RegisteredHandlers == IF h_active THEN 1 ELSE 0

\* C40: active_clients is never negative and equals the number of handlers
\* registered and not yet deregistered; a handler adds exactly one on entry
\* and takes exactly one off on exit, and nothing else changes the counter.
C40_ClientCountMatchesHandlers ==
  /\ [](active_clients >= 0 /\ active_clients = RegisteredHandlers)
  /\ [][h_active' # h_active
          => active_clients' - active_clients
               = (IF h_active' THEN 1 ELSE 0) - RegisteredHandlers]_vars
  /\ [][active_clients' # active_clients => h_active' # h_active]_vars

\* a second handler has ended after the monitor took the HTTP server down
C40_Witness ==
  /\ connects = 2
  /\ ~h_active
  /\ active_clients = 0
  /\ ~server_open
  /\ Cardinality(timers) >= 1

====
